---- MODULE Spec2Model ----
(***************************************************************************)
(* A model of the data agent: the Dataset Store (DataHandler), the query   *)
(* execution engine (QueryExecutor), the intent validation of LLMHandler,  *)
(* the POST /query route, the cached handler dependencies and the daily    *)
(* summary, anomaly detection and top insights of AlertsHandler, and the   *)
(* operations that read the store serving concurrent requests.             *)
(*                                                                         *)
(* Categorical column values are modelled by their rank in alphabetical    *)
(* order (PF < PJ, pix < pos), which is the order pandas sorts them in;    *)
(* days by their day number.  Amounts are whole numbers, so sums are exact *)
(* and a float is a fraction n/d in lowest terms, inf or nan.              *)
(***************************************************************************)
EXTENDS Integers, Sequences, FiniteSets, TLC

\* ------------------------------------------------------------------ bounds
\* Largest number of rows of a loaded dataset.
MaxRows == 3

\* ------------------------------------------------------- column vocabulary
PF == 1
PJ == 2
pix == 1
pos == 2
credit == 1
debit == 2
uninformed == 3
aggressive == 1
normal == 4

\* The columns of the CSV file, and of the loaded frame (day_of_week added).
CsvColumns ==
    {"day", "entity", "product", "price_tier", "payment_method", "installments",
     "amount_transacted", "quantity_transactions", "quantity_of_merchants"}

Columns == CsvColumns \cup {"day_of_week"}

\* ------------------------------------------------------------- JSON values
\* What json.loads returns, tagged by its Python type.
JNull == [t |-> "null"]
JInt(n) == [t |-> "int", v |-> n]
JStr(s) == [t |-> "str", v |-> s]
JList(s) == [t |-> "list", v |-> s]
JDict(s) == [t |-> "dict", v |-> s]

\* ----------------------------------------------------------------- floats
RECURSIVE Gcd(_, _)
Gcd(a, b) == IF b = 0 THEN a ELSE Gcd(b, a % b)

NaN == [k |-> "nan", n |-> 0, d |-> 0]
Inf == [k |-> "inf", n |-> 1, d |-> 0]

\* The float n/d for n >= 0, d > 0, in lowest terms.
Frac(n, d) == LET g == Gcd(n, d) IN [k |-> "num", n |-> n \div g, d |-> d \div g]

\* float(n)
Num(n) == [k |-> "num", n |-> n, d |-> 1]

\* x < y for floats that are not nan.
FLess(x, y) ==
    CASE x.k = "inf" -> FALSE
      [] y.k = "inf" -> TRUE
      [] OTHER -> x.n * y.d < y.n * x.d

Abs(n) == IF n < 0 THEN -n ELSE n

\* The float n/d for d # 0, in lowest terms and with a positive denominator.
Ratio(n, d) ==
    LET g == Gcd(Abs(n), Abs(d))
    IN [k |-> "num", n |-> (IF d < 0 THEN -n ELSE n) \div g, d |-> Abs(d) \div g]

\* Arithmetic of floats that are numbers.
FAdd(x, y) == Ratio(x.n * y.d + y.n * x.d, x.d * y.d)
FSub(x, y) == Ratio(x.n * y.d - y.n * x.d, x.d * y.d)
FMul(x, y) == Ratio(x.n * y.n, x.d * y.d)
\* x / y for y # 0
FDiv(x, y) == Ratio(x.n * y.d, x.d * y.n)
\* abs(x)
FAbs(x) == [x EXCEPT !.n = Abs(@)]

\* ---------------------------------------------------------- Dataset Store
\* Alphabetical rank of the weekday names Monday .. Sunday.
WeekdayRank == <<2, 6, 7, 5, 1, 3, 4>>

\* Series.dt.day_name() of a day number (day 1 is a Monday).
DayName(day) == WeekdayRank[((day - 1) % 7) + 1]

\* A row of the CSV file.
CsvRowFull(day, entity, product, price_tier, payment_method, installments, amount, qty, merchants) ==
    [day |-> day, entity |-> entity, product |-> product, price_tier |-> price_tier,
     payment_method |-> payment_method, installments |-> installments,
     amount_transacted |-> amount, quantity_transactions |-> qty,
     quantity_of_merchants |-> merchants]

\* A row of price tier normal paid in one installment.
CsvRowPaid(day, entity, product, payment_method, amount, qty, merchants) ==
    CsvRowFull(day, entity, product, normal, payment_method, 1, amount, qty, merchants)

\* A row whose payment method is uninformed.
CsvRow(day, entity, product, amount, qty, merchants) ==
    CsvRowPaid(day, entity, product, uninformed, amount, qty, merchants)

\* The rows a CSV file is made of here: two rows of one group with different
\* per-row ratios, a row without transactions and without amount, and a row
\* with an amount and no transactions.
CsvRows ==
    {CsvRow(1, PJ, pix, 50, 1, 1),
     CsvRow(1, PJ, pos, 80, 2, 1),
     CsvRow(2, PF, pix, 300, 2, 2),
     CsvRow(2, PF, pos, 0, 0, 0),
     CsvRow(3, PJ, pix, 100, 0, 1)}

RECURSIVE SeqsUpTo(_, _)
SeqsUpTo(S, n) ==
    IF n = 0 THEN {<<>>}
    ELSE LET shorter == SeqsUpTo(S, n - 1)
         IN shorter \cup {Append(s, x) : s \in {t \in shorter : Len(t) = n - 1}, x \in S}

CsvFiles == SeqsUpTo(CsvRows, MaxRows)

\* DataHandler._load_data: read the file and derive day_of_week from day.
LoadData(csv) ==
    [i \in 1..Len(csv) |->
        [c \in Columns |-> IF c = "day_of_week" THEN DayName(csv[i].day) ELSE csv[i][c]]]

\* What a call returns or raises.
Returned(rows) == [exc |-> "none", arg |-> "", rows |-> rows]
Raised(exc, arg) == [exc |-> exc, arg |-> arg, rows |-> <<>>]

\* Series.isin(values)
IsIn(cell, values) == \E j \in 1..Len(values) : values[j].t = "int" /\ values[j].v = cell

\* Series == value
EqScalar(cell, value) == value.t = "int" /\ value.v = cell

\* FilterStep with isin taken as equality with the first value of the list.
FilterStepFirstOfList(filtered, column, value) ==
    IF value.t = "list"
    THEN SelectSeq(filtered, LAMBDA r : value.v # <<>> /\ EqScalar(r[column], value.v[1]))
    ELSE SelectSeq(filtered, LAMBDA r : EqScalar(r[column], value))

\* One pass of the loop of filter_data over a column that exists.
FilterStep(filtered, column, value) ==
    IF value.t = "list"
    THEN SelectSeq(filtered, LAMBDA r : IsIn(r[column], value.v))
    ELSE SelectSeq(filtered, LAMBDA r : EqScalar(r[column], value))

RECURSIVE FilterLoopStopsWhenEmpty(_, _, _)
\* FilterLoop returning as soon as no row is left, the later keys unchecked.
FilterLoopStopsWhenEmpty(filtered, items, i) ==
    IF i > Len(items) \/ (i > 1 /\ filtered = <<>>) THEN Returned(filtered)
    ELSE IF items[i].k \notin Columns THEN Raised("ValueError", items[i].k)
    ELSE FilterLoopStopsWhenEmpty(FilterStep(filtered, items[i].k, items[i].v), items, i + 1)

\* The loop of filter_data over filters.items(), from item i on.
RECURSIVE FilterLoop(_, _, _)
FilterLoop(filtered, items, i) ==
    IF i > Len(items) THEN Returned(filtered)
    ELSE IF items[i].k \notin Columns THEN Raised("ValueError", items[i].k)
    ELSE FilterLoop(FilterStep(filtered, items[i].k, items[i].v), items, i + 1)

\* The rows of s at the positions in S, in order.
RECURSIVE Pick(_, _)
Pick(s, S) ==
    IF S = {} THEN <<>>
    ELSE LET m == CHOOSE x \in S : \A y \in S : x <= y IN <<s[m]>> \o Pick(s, S \ {m})

RECURSIVE MisalignedLoop(_, _, _, _)
MisalignedLoop(frame, filtered, items, i) ==
    IF i > Len(items) THEN Returned(filtered)
    ELSE IF items[i].k \notin Columns THEN Raised("ValueError", items[i].k)
    ELSE MisalignedLoop(frame,
            Pick(filtered, {j \in 1..Len(filtered) :
                    FilterStep(<<frame[j]>>, items[i].k, items[i].v) # <<>>}),
            items, i + 1)

\* FilterData with each mask computed on the whole frame and applied by
\* position to the rows filtered so far.
FilterDataMisaligned(frame, filters) == MisalignedLoop(frame, frame, filters.v, 1)

\* DataHandler.filter_data of a handler whose frame is frame.
FilterData(frame, filters) == FilterLoop(frame, filters.v, 1)

\* ---------------------------------------------------- pandas frame helpers
RECURSIVE Sum(_, _)
\* Series.sum() of column col over rows.
Sum(rows, col) == IF rows = <<>> THEN 0 ELSE rows[1][col] + Sum(Tail(rows), col)

\* The grouping key of a row.
GroupKey(r, group_by) == [i \in 1..Len(group_by) |-> r[group_by[i]]]

LexLess(a, b) ==
    \E i \in 1..Len(a) : a[i] < b[i] /\ \A j \in 1..(i - 1) : a[j] = b[j]

RECURSIVE SortKeys(_)
\* The keys of a groupby in the order pandas emits them (sort=True).
SortKeys(S) ==
    IF S = {} THEN <<>>
    ELSE LET m == CHOOSE x \in S : \A y \in S \ {x} : LexLess(x, y)
         IN <<m>> \o SortKeys(S \ {m})

\* data.groupby(group_by).agg({c: 'sum' for c in aggCols}).reset_index(),
\* every column of group_by being a column of the frame.
GroupBySum(rows, group_by, aggCols) ==
    LET keys == SortKeys({GroupKey(rows[i], group_by) : i \in 1..Len(rows)})
        byCol == {group_by[i] : i \in 1..Len(group_by)}
        bucket(key) == SelectSeq(rows, LAMBDA r : GroupKey(r, group_by) = key)
        idx(c) == CHOOSE i \in 1..Len(group_by) : group_by[i] = c
    IN [n \in 1..Len(keys) |->
            [c \in byCol \cup aggCols |->
                IF c \in aggCols THEN Sum(bucket(keys[n]), c) ELSE keys[n][idx(c)]]]

\* Series / Series of two summed columns, element by element: numpy's float
\* division, which gives inf for x/0 and nan for 0/0.
SeriesDiv(a, b) ==
    IF b = 0 THEN (IF a = 0 THEN NaN ELSE Inf) ELSE Frac(a, b)

\* frame[col] = value(row), row by row.
WithColumn(rows, col, value(_)) ==
    [n \in 1..Len(rows) |->
        [c \in DOMAIN rows[n] \cup {col} |-> IF c = col THEN value(rows[n]) ELSE rows[n][c]]]

RECURSIVE InsertStable(_, _, _)
\* sorted with row x put after every row whose key is not greater.
InsertStable(sorted, x, col) ==
    IF sorted = <<>> THEN <<x>>
    ELSE IF FLess(x[col], sorted[1][col]) THEN <<x>> \o sorted
    ELSE <<sorted[1]>> \o InsertStable(Tail(sorted), x, col)

RECURSIVE ArgSortStable(_, _)
\* numpy's argsort of fewer than 17 items (an insertion sort, which is stable).
ArgSortStable(rows, col) ==
    IF rows = <<>> THEN <<>>
    ELSE InsertStable(ArgSortStable(SubSeq(rows, 1, Len(rows) - 1), col), rows[Len(rows)], col)

Reverse(s) == [i \in 1..Len(s) |-> s[Len(s) + 1 - i]]

\* DataFrame.sort_values(col, ascending=ascending): pandas' nargsort, which
\* sorts the rows that are not nan and puts the nan rows last.
SortValues(rows, col, ascending) ==
    LET nonNans == SelectSeq(rows, LAMBDA r : r[col].k # "nan")
        nans == SelectSeq(rows, LAMBDA r : r[col].k = "nan")
    IN (IF ascending THEN ArgSortStable(nonNans, col)
        ELSE Reverse(ArgSortStable(Reverse(nonNans), col))) \o nans

\* DataFrame.tail(n), the rows taken from the end.
DfTail(rows, n) ==
    IF n >= 0 THEN SubSeq(rows, (IF n < Len(rows) THEN Len(rows) - n ELSE 0) + 1, Len(rows))
    ELSE SubSeq(rows, (IF -n < Len(rows) THEN -n ELSE Len(rows)) + 1, Len(rows))

\* DataFrame.head(n)
DfHead(rows, n) ==
    IF n >= 0 THEN SubSeq(rows, 1, IF n < Len(rows) THEN n ELSE Len(rows))
    ELSE SubSeq(rows, 1, IF Len(rows) + n > 0 THEN Len(rows) + n ELSE 0)

\* ------------------------------------------------------------ QueryExecutor
Metrics == {"tpv", "average_ticket", "transactions", "merchants"}

\* metric_value of a QueryResult that has none.
None == [k |-> "None", n |-> 0, d |-> 0]

\* dict.get(field, default)
Get(dict, field, default) == IF field \in DOMAIN dict THEN dict[field] ELSE default

\* A frame, or the exception raised instead of one.
Frame(columns, rows) == [exc |-> "none", arg |-> "", columns |-> columns, rows |-> rows]
NoFrame(exc, arg) == [exc |-> exc, arg |-> arg, columns |-> {}, rows |-> <<>>]

\* The division of _execute_grouped_query's average_ticket branch.
GroupedAverageTicket(row) ==
    SeriesDiv(row["amount_transacted"], row["quantity_transactions"])

\* ExecuteGroupedQuery honouring aggregation = count: the value of a group
\* is the number of its rows.
ExecuteGroupedQueryCounting(rows, metric, aggregation, group_by) ==
    LET missing == {i \in 1..Len(group_by) : group_by[i] \notin Columns}
        byCol == {group_by[i] : i \in 1..Len(group_by)}
        size(row) == Len(SelectSeq(rows, LAMBDA r : \A c \in byCol : r[c] = row[c]))
        value(row) ==
            CASE aggregation = "count" -> Num(size(row))
              [] metric = "tpv" -> Num(row["amount_transacted"])
              [] metric = "average_ticket" ->
                    SeriesDiv(row["amount_transacted"], row["quantity_transactions"])
              [] metric = "transactions" -> Num(row["quantity_transactions"])
              [] OTHER -> Num(row["quantity_of_merchants"])
    IN IF metric \notin Metrics THEN NoFrame("ValueError", metric)
       ELSE IF missing # {}
       THEN NoFrame("KeyError", group_by[CHOOSE i \in missing : \A j \in missing : i <= j])
       ELSE Frame(byCol \cup {"amount_transacted", "quantity_transactions",
                              "quantity_of_merchants", "metric_value"},
                  WithColumn(GroupBySum(rows, group_by,
                                        {"amount_transacted", "quantity_transactions",
                                         "quantity_of_merchants"}),
                             "metric_value", value))

\* QueryExecutor._execute_grouped_query
ExecuteGroupedQuery(rows, metric, aggregation, group_by) ==
    LET missing == {i \in 1..Len(group_by) : group_by[i] \notin Columns}
        byCol == {group_by[i] : i \in 1..Len(group_by)}
        aggCols ==
            CASE metric = "tpv" -> {"amount_transacted"}
              [] metric = "average_ticket" -> {"amount_transacted", "quantity_transactions"}
              [] metric = "transactions" -> {"quantity_transactions"}
              [] metric = "merchants" -> {"quantity_of_merchants"}
              [] OTHER -> {}
        value(row) ==
            CASE metric = "tpv" -> Num(row["amount_transacted"])
              [] metric = "average_ticket" -> GroupedAverageTicket(row)
              [] metric = "transactions" -> Num(row["quantity_transactions"])
              [] OTHER -> Num(row["quantity_of_merchants"])
    IN IF metric \notin Metrics THEN NoFrame("ValueError", metric)
       ELSE IF missing # {}
       THEN NoFrame("KeyError", group_by[CHOOSE i \in missing : \A j \in missing : i <= j])
       ELSE Frame(byCol \cup aggCols \cup {"metric_value"},
                  WithColumn(GroupBySum(rows, group_by, aggCols), "metric_value", value))

\* DataHandler.calculate_tpv
CalculateTpv(rows) == Num(Sum(rows, "amount_transacted"))

\* CalculateAverageTicket without the test of the denominator.
CalculateAverageTicketUnguarded(rows) ==
    SeriesDiv(Sum(rows, "amount_transacted"), Sum(rows, "quantity_transactions"))

\* DataHandler.calculate_average_ticket
CalculateAverageTicket(rows) ==
    LET total_amount == Sum(rows, "amount_transacted")
        total_transactions == Sum(rows, "quantity_transactions")
    IN IF total_transactions = 0 THEN Num(0) ELSE Frac(total_amount, total_transactions)

\* ExecuteSimpleQuery returning no row for an empty set of rows.
ExecuteSimpleQueryNoRowWhenEmpty(rows, metric) ==
    IF metric \notin Metrics THEN NoFrame("ValueError", metric)
    ELSE IF rows = <<>> THEN Frame({"metric_value"}, <<>>)
    ELSE Frame({"metric_value"}, <<[metric_value |-> CalculateTpv(rows)]>>)

\* ExecuteSimpleQuery giving a metric it does not know the value 0.
ExecuteSimpleQueryUnknownMetricZero(rows, metric) ==
    LET value ==
            CASE metric = "tpv" -> CalculateTpv(rows)
              [] metric = "average_ticket" -> CalculateAverageTicket(rows)
              [] metric = "transactions" -> Num(Sum(rows, "quantity_transactions"))
              [] metric = "merchants" -> Num(Sum(rows, "quantity_of_merchants"))
              [] OTHER -> Num(0)
    IN Frame({"metric_value"}, <<[metric_value |-> value]>>)

\* QueryExecutor._execute_simple_query
ExecuteSimpleQuery(rows, metric) ==
    LET value ==
            CASE metric = "tpv" -> CalculateTpv(rows)
              [] metric = "average_ticket" -> CalculateAverageTicket(rows)
              [] metric = "transactions" -> Num(Sum(rows, "quantity_transactions"))
              [] OTHER -> Num(Sum(rows, "quantity_of_merchants"))
    IN IF metric \notin Metrics THEN NoFrame("ValueError", metric)
       ELSE Frame({"metric_value"}, <<[metric_value |-> value]>>)

\* QueryExecutor._get_metric_name
GetMetricName(metric) ==
    CASE metric = "tpv" -> "Total Payment Volume (TPV)"
      [] metric = "average_ticket" -> "Average Ticket"
      [] metric = "transactions" -> "Total Transactions"
      [] metric = "merchants" -> "Total Merchants"
      [] OTHER -> metric

\* A QueryResult, or the exception raised instead of one.
QueryResult(frame, metric_value, metric_name, explanation) ==
    [exc |-> "none", arg |-> "", columns |-> frame.columns, rows |-> frame.rows,
     metric_value |-> metric_value, metric_name |-> metric_name,
     explanation |-> explanation]

NoResult(exc, arg) ==
    [exc |-> exc, arg |-> arg, columns |-> {}, rows |-> <<>>,
     metric_value |-> None, metric_name |-> "", explanation |-> ""]

\* The sorting step of execute.
SortStep(frame, sort_by, sort_order) ==
    IF sort_by = "metric" /\ "metric_value" \in frame.columns
    THEN Frame(frame.columns, SortValues(frame.rows, "metric_value", sort_order = "asc"))
    ELSE frame

\* The limiting step of execute.
LimitStep(frame, limit) ==
    IF limit.t = "int" /\ limit.v # 0
    THEN Frame(frame.columns, DfHead(frame.rows, limit.v))
    ELSE frame

\* ScalarOf taking the first row of any result, and 0 when there is none.
ScalarOfFirstRow(frame) ==
    IF frame.rows = <<>> THEN Num(0) ELSE frame.rows[1]["metric_value"]

\* The scalar extraction of execute.
ScalarOf(frame) ==
    IF Len(frame.rows) = 1 /\ "metric_value" \in frame.columns
    THEN frame.rows[1]["metric_value"]
    ELSE None

\* Execute with the limit taken before the sort.
ExecuteLimitBeforeSort(data, query_intent) ==
    LET metric == query_intent["metric"]
        aggregation == query_intent["aggregation"]
        group_by == query_intent["group_by"].v
        filters == Get(query_intent, "filters", JDict(<<>>))
        sort_by == Get(query_intent, "sort_by", "metric")
        sort_order == Get(query_intent, "sort_order", "desc")
        limit == Get(query_intent, "limit", JNull)
        explanation == Get(query_intent, "explanation", "Query executed")
        filtered_data == IF filters.v # <<>> THEN FilterData(data, filters) ELSE Returned(data)
        result_df ==
            IF group_by # <<>>
            THEN ExecuteGroupedQuery(filtered_data.rows, metric, aggregation, group_by)
            ELSE ExecuteSimpleQuery(filtered_data.rows, metric)
        final == SortStep(LimitStep(result_df, limit), sort_by, sort_order)
    IN IF filtered_data.exc # "none" THEN NoResult(filtered_data.exc, filtered_data.arg)
       ELSE IF result_df.exc # "none" THEN NoResult(result_df.exc, result_df.arg)
       ELSE QueryResult(final, ScalarOf(final), GetMetricName(metric), explanation)

\* QueryExecutor.execute over the loaded frame data.
Execute(data, query_intent) ==
    LET metric == query_intent["metric"]
        aggregation == query_intent["aggregation"]
        group_by == query_intent["group_by"].v
        filters == Get(query_intent, "filters", JDict(<<>>))
        sort_by == Get(query_intent, "sort_by", "metric")
        sort_order == Get(query_intent, "sort_order", "desc")
        limit == Get(query_intent, "limit", JNull)
        explanation == Get(query_intent, "explanation", "Query executed")
        filtered_data == IF filters.v # <<>> THEN FilterData(data, filters) ELSE Returned(data)
        result_df ==
            IF group_by # <<>>
            THEN ExecuteGroupedQuery(filtered_data.rows, metric, aggregation, group_by)
            ELSE ExecuteSimpleQuery(filtered_data.rows, metric)
        final == LimitStep(SortStep(result_df, sort_by, sort_order), limit)
    IN IF filtered_data.exc # "none" THEN NoResult(filtered_data.exc, filtered_data.arg)
       ELSE IF result_df.exc # "none" THEN NoResult(result_df.exc, result_df.arg)
       ELSE QueryResult(final, ScalarOf(final), GetMetricName(metric), explanation)

\* -------------------------------------------------------------- LLMHandler
RequiredFields == <<"metric", "aggregation", "group_by", "filters", "explanation">>
ValidAggregations == {"sum", "mean", "count"}

\* ValidateQueryIntent without the test of the metric.
ValidateQueryIntentAnyMetric(intent) ==
    LET missing == {i \in 1..Len(RequiredFields) : RequiredFields[i] \notin DOMAIN intent}
    IN IF missing # {}
       THEN Raised("ValueError", RequiredFields[CHOOSE i \in missing : \A j \in missing : i <= j])
       ELSE IF intent["aggregation"] \notin ValidAggregations
       THEN Raised("ValueError", "aggregation")
       ELSE IF intent["group_by"].t # "list" THEN Raised("ValueError", "group_by")
       ELSE IF intent["filters"].t # "dict" THEN Raised("ValueError", "filters")
       ELSE Returned(<<>>)

\* LLMHandler._validate_query_intent: the ValueError it raises, or none.
ValidateQueryIntent(intent) ==
    LET missing == {i \in 1..Len(RequiredFields) : RequiredFields[i] \notin DOMAIN intent}
    IN IF missing # {}
       THEN Raised("ValueError", RequiredFields[CHOOSE i \in missing : \A j \in missing : i <= j])
       ELSE IF intent["metric"] \notin Metrics THEN Raised("ValueError", "metric")
       ELSE IF intent["aggregation"] \notin ValidAggregations
       THEN Raised("ValueError", "aggregation")
       ELSE IF intent["group_by"].t # "list" THEN Raised("ValueError", "group_by")
       ELSE IF intent["filters"].t # "dict" THEN Raised("ValueError", "filters")
       ELSE Returned(<<>>)

\* What the chat completion call of parse_question ends with: the call
\* raises, or it returns content that is JSON (an object) or is not.
ApiFailed == [kind |-> "error"]
NotJson == [kind |-> "text"]
JsonObject(intent) == [kind |-> "json", intent |-> intent]

\* What parse_question returns or raises.
Parsed(intent) == [exc |-> "none", arg |-> "", intent |-> intent]
NotParsed(exc, arg) == [exc |-> exc, arg |-> arg, intent |-> [explanation |-> ""]]

\* LLMHandler.parse_question: both handlers of its try statement raise a
\* plain Exception, and the second one catches the validation's ValueError.
ParseQuestion(response) ==
    CASE response.kind = "error" -> NotParsed("Exception", "Error calling OpenAI API")
      [] response.kind = "text" -> NotParsed("Exception", "Failed to parse LLM response as JSON")
      [] OTHER ->
            IF ValidateQueryIntent(response.intent).exc # "none"
            THEN NotParsed("Exception", "Error calling OpenAI API")
            ELSE Parsed(response.intent)

\* isinstance(e, ValueError) for the exceptions raised here: KeyError is a
\* LookupError and Exception is the base class.
IsValueError(exc) == exc \in {"ValueError", "JSONDecodeError"}

\* ------------------------------------------------------------- POST /query
HttpResponse(status, result) == [status |-> status, result |-> result]

\* The status of the HTTPException process_query raises for an exception.
StatusOf(exc) == IF IsValueError(exc) THEN 400 ELSE 500

\* process_query
ProcessQuery(frame, response) ==
    LET parsed == ParseQuestion(response)
        result == Execute(frame, parsed.intent)
    IN IF parsed.exc # "none" THEN HttpResponse(StatusOf(parsed.exc), NoResult(parsed.exc, parsed.arg))
       ELSE IF result.exc # "none" THEN HttpResponse(StatusOf(result.exc), result)
       ELSE HttpResponse(200, result)

\* ProcessQueryCalls calling the translator again after a failure.
ProcessQueryCallsRetrying(response) ==
    [translator |-> IF ParseQuestion(response).exc = "none" THEN 1 ELSE 2,
     executor |-> IF ParseQuestion(response).exc = "none" THEN 1 ELSE 0]

\* The calls process_query makes: parse_question, which calls the chat
\* completion once, and execute when parse_question returned an intent.
ProcessQueryCalls(response) ==
    [translator |-> 1,
     executor |-> IF ParseQuestion(response).exc = "none" THEN 1 ELSE 0]

\* ------------------------------------------------------------------ inputs
\* Largest number of keys of a filters mapping given to filter_data.
MaxFilterKeys == 2

Item(column, value) == [k |-> column, v |-> value]

\* The predicates a filters mapping is made of; region is no column, and no
\* row has day 9.
FilterItems ==
    {Item("entity", JInt(PJ)), Item("product", JInt(pos)),
     Item("product", JList(<<JInt(pix)>>)), Item("day", JList(<<JInt(1), JInt(2)>>)),
     Item("day", JInt(9)), Item("region", JInt(1))}

\* The filters mappings given to filter_data: a dict has no key twice.
FilterInputs ==
    {JDict(s) : s \in {t \in SeqsUpTo(FilterItems, MaxFilterKeys) :
                        \A i, j \in 1..Len(t) : t[i].k = t[j].k => i = j}}

Intent(metric, aggregation, group_by, filters, sort_by, sort_order, limit) ==
    [metric |-> metric, aggregation |-> aggregation, group_by |-> JList(group_by),
     filters |-> JDict(filters), sort_by |-> sort_by, sort_order |-> sort_order,
     limit |-> limit, explanation |-> "why"]

\* An intent without the optional sort_by, sort_order and limit.
SparseIntent(metric, aggregation, group_by, filters) ==
    [metric |-> metric, aggregation |-> aggregation, group_by |-> JList(group_by),
     filters |-> JDict(filters), explanation |-> "why"]

GroupByInputs == {<<>>, <<"product">>, <<"day">>, <<"entity", "product">>}
ExecFilterInputs == {<<>>, <<Item("entity", JInt(PJ))>>}
LimitInputs == {JNull, JInt(1), JInt(2), JInt(-1)}

\* Intents that differ in metric, grouping, filters, sorting and limit.
SortingIntents ==
    {Intent(m, "sum", g, f, sb, so, l) :
        m \in Metrics, g \in GroupByInputs, f \in ExecFilterInputs,
        sb \in {"metric", "day"}, so \in {"asc", "desc"}, l \in LimitInputs}
    \cup {SparseIntent(m, "sum", g, f) :
            m \in Metrics, g \in GroupByInputs, f \in ExecFilterInputs}

\* Intents that differ in the advisory aggregation.
AggregationIntents ==
    {Intent(m, a, g, f, "metric", "desc", JNull) :
        m \in Metrics, a \in {"mean", "count"}, g \in GroupByInputs, f \in ExecFilterInputs}

\* Intents that name a metric or a column that does not exist.
BadIntents ==
    {Intent("revenue", "sum", g, f, "metric", so, JNull) :
        g \in {<<>>, <<"product">>}, f \in ExecFilterInputs, so \in {"asc", "desc"}}
    \cup {Intent(m, "sum", g, f, "metric", "desc", l) :
            m \in {"tpv", "average_ticket"}, g \in {<<"region">>, <<"product", "region">>},
            f \in ExecFilterInputs, l \in {JNull, JInt(1)}}
    \cup {Intent(m, "sum", g, f, "metric", "desc", JNull) :
            m \in {"tpv", "revenue"}, g \in {<<>>, <<"product">>, <<"region">>},
            f \in {<<Item("region", JInt(1))>>,
                   <<Item("entity", JInt(PJ)), Item("region", JInt(1))>>,
                   <<Item("day", JInt(9)), Item("region", JInt(1))>>}}

\* Intents whose limit is zero, larger than the result, or no integer.
LimitIntents ==
    {Intent("tpv", "sum", g, <<>>, "metric", so, l) :
        g \in {<<>>, <<"product">>, <<"day">>}, so \in {"asc", "desc"},
        l \in {JInt(0), JInt(3), JStr("1")}}

Intents == SortingIntents \cup AggregationIntents \cup BadIntents \cup LimitIntents

\* An intent without one of its fields.
Without(intent, field) == [f \in DOMAIN intent \ {field} |-> intent[f]]

BaseIntent == Intent("tpv", "sum", <<"product">>, <<>>, "metric", "desc", JNull)

\* JSON objects that fail the validation of the intent.
InvalidObjects ==
    {Without(BaseIntent, RequiredFields[i]) : i \in 1..Len(RequiredFields)}
    \cup {[BaseIntent EXCEPT !["metric"] = "revenue"],
          [BaseIntent EXCEPT !["aggregation"] = "median"],
          [BaseIntent EXCEPT !["group_by"] = JStr("product")],
          [BaseIntent EXCEPT !["filters"] = JList(<<>>)],
          [Without(BaseIntent, "metric") EXCEPT !["group_by"] = JList(<<"region">>)]}

\* JSON objects that pass it, some naming a column that does not exist.
ValidObjects ==
    {Intent(m, a, g, f, "metric", "desc", l) :
        m \in {"tpv", "average_ticket"}, a \in ValidAggregations,
        g \in {<<>>, <<"product">>, <<"region">>, <<"product", "region">>},
        f \in {<<>>, <<Item("entity", JInt(PJ))>>, <<Item("region", JInt(1))>>},
        l \in {JNull, JInt(1)}}

Responses == {ApiFailed, NotJson} \cup {JsonObject(i) : i \in InvalidObjects \cup ValidObjects}

\* ------------------------------------------------------------------- state
\* Threads of the pool that resolves the route dependencies.
NumThreads == 2
\* Largest number of requests the service is sent.
MaxRequests == 3

Threads == 1..NumThreads
Deps == {"data_handler", "llm_handler"}

VARIABLES
    data,           \* DataHandler._data, the loaded frame
    call,           \* the operation called last, with its arguments
    ret,            \* what that operation returned or raised
    env,            \* whether the CSV file exists and the API key is set
    cache,          \* the lru_cache of each dependency: 0, or the instance it holds
    made,           \* the instances of each handler constructed so far
    failed,         \* the constructions of each handler that raised
    returned,       \* the instances each dependency has returned to a request
    pc,             \* where each thread is in the cached call
    dep,            \* the dependency each thread is resolving
    mine,           \* the instance each thread constructed
    requests,       \* the requests received so far
    health_reports  \* the "healthy" answers of GET /health so far

store_vars == <<data, call, ret>>
deps_vars == <<env, cache, made, failed, returned, pc, dep, mine, requests, health_reports>>
vars == <<data, call, ret, env, cache, made, failed, returned, pc, dep, mine, requests,
          health_reports>>

\* No request is being served.
ThreadsIdle ==
    /\ pc = [t \in Threads |-> "idle"]
    /\ dep = [t \in Threads |-> "data_handler"]
    /\ mine = [t \in Threads |-> 0]
    /\ requests = 0
    /\ health_reports = 0

\* The service with both handlers constructed and cached, and a CSV file loaded.
Init ==
    /\ data \in {LoadData(csv) : csv \in CsvFiles}
    /\ call = [op |-> "none"]
    /\ ret = Returned(<<>>)
    /\ env = [file_exists |-> TRUE, api_key |-> TRUE]
    /\ cache = [f \in Deps |-> 1]
    /\ made = [f \in Deps |-> 1]
    /\ failed = [f \in Deps |-> 0]
    /\ returned = [f \in Deps |-> {}]
    /\ ThreadsIdle

\* A call of DataHandler.filter_data.
FilterDataCall(filters) ==
    /\ call.op = "none"
    /\ call' = [op |-> "filter_data", filters |-> filters]
    /\ ret' = FilterData(data, filters)
    /\ UNCHANGED <<data, deps_vars>>

\* filter_data, with the same filters, of a handler holding the frame the
\* last call of filter_data returned.
FilterAgainCall ==
    /\ call.op = "filter_data"
    /\ ret.exc = "none"
    /\ call' = [op |-> "filter_again", filters |-> call.filters, first |-> ret.rows]
    /\ ret' = FilterData(ret.rows, call.filters)
    /\ UNCHANGED <<data, deps_vars>>

\* A call of QueryExecutor.execute.
ExecuteCall(query_intent) ==
    /\ call.op = "none"
    /\ call' = [op |-> "execute", intent |-> query_intent]
    /\ ret' = Execute(data, query_intent)
    /\ UNCHANGED <<data, deps_vars>>

\* A POST /query request, the translator answering with response.
PostQuery(response) ==
    /\ call.op = "none"
    /\ call' = [op |-> "post_query", response |-> response,
                calls |-> ProcessQueryCalls(response)]
    /\ ret' = ProcessQuery(data, response)
    /\ UNCHANGED <<data, deps_vars>>

\* The caller takes what the last call returned or raised; the handlers keep
\* nothing of a call, so the next call starts from the loaded frame alone.
TakeResult ==
    /\ call.op # "none"
    /\ call' = [op |-> "none"]
    /\ ret' = Returned(<<>>)
    /\ UNCHANGED <<data, deps_vars>>

Next ==
    \/ \E filters \in FilterInputs : FilterDataCall(filters)
    \/ FilterAgainCall
    \/ \E query_intent \in Intents : ExecuteCall(query_intent)
    \/ \E response \in Responses : PostQuery(response)
    \/ TakeResult

Spec == Init /\ [][Next]_vars

\* ------------------------------------------------- the cached dependencies
\* The service right after start: app.main builds the application and its
\* routes and constructs no handler.
InitDeps ==
    /\ data = <<>>
    /\ call = [op |-> "none"]
    /\ ret = Returned(<<>>)
    /\ env \in [file_exists : BOOLEAN, api_key : BOOLEAN]
    /\ cache = [f \in Deps |-> 0]
    /\ made = [f \in Deps |-> 0]
    /\ failed = [f \in Deps |-> 0]
    /\ returned = [f \in Deps |-> {}]
    /\ ThreadsIdle

\* Whether the body of the dependency returns a handler: DataHandler raises
\* FileNotFoundError without the CSV file, get_llm_handler raises ValueError
\* without the API key.
CanConstruct(f) == IF f = "data_handler" THEN env.file_exists ELSE env.api_key

\* A request makes thread t call get_data_handler or get_llm_handler: the
\* lru_cache wrapper returns the cached instance, or finds none.
GetCached(t, f) ==
    /\ pc[t] = "idle"
    /\ requests < MaxRequests
    /\ requests' = requests + 1
    /\ IF cache[f] # 0
       THEN /\ returned' = [returned EXCEPT ![f] = @ \cup {cache[f]}]
            /\ UNCHANGED <<pc, dep>>
       ELSE /\ pc' = [pc EXCEPT ![t] = "miss"]
            /\ dep' = [dep EXCEPT ![t] = f]
            /\ UNCHANGED returned
    /\ UNCHANGED <<store_vars, env, cache, made, failed, mine, health_reports>>

\* After a miss the wrapper calls the dependency's body, holding no lock.
CallWrapped(t) ==
    /\ pc[t] = "miss"
    /\ IF CanConstruct(dep[t])
       THEN /\ made' = [made EXCEPT ![dep[t]] = @ + 1]
            /\ mine' = [mine EXCEPT ![t] = made[dep[t]] + 1]
            /\ pc' = [pc EXCEPT ![t] = "store"]
            /\ UNCHANGED failed
       ELSE /\ failed' = [failed EXCEPT ![dep[t]] = @ + 1]
            /\ pc' = [pc EXCEPT ![t] = "idle"]
            /\ UNCHANGED <<made, mine>>
    /\ UNCHANGED <<store_vars, env, cache, returned, dep, requests, health_reports>>

\* The wrapper stores the instance unless the key was cached meanwhile, and
\* returns the instance it made either way.
StoreResult(t) ==
    /\ pc[t] = "store"
    /\ cache' = [cache EXCEPT ![dep[t]] = IF @ = 0 THEN mine[t] ELSE @]
    /\ returned' = [returned EXCEPT ![dep[t]] = @ \cup {mine[t]}]
    /\ pc' = [pc EXCEPT ![t] = "idle"]
    /\ mine' = [mine EXCEPT ![t] = 0]
    /\ UNCHANGED <<store_vars, env, made, failed, dep, requests, health_reports>>

\* GET /health
Health ==
    /\ requests < MaxRequests
    /\ requests' = requests + 1
    /\ health_reports' = health_reports + 1
    /\ UNCHANGED <<store_vars, env, cache, made, failed, returned, pc, dep, mine>>

NextDeps ==
    \/ \E t \in Threads, f \in Deps : GetCached(t, f)
    \/ \E t \in Threads : CallWrapped(t)
    \/ \E t \in Threads : StoreResult(t)
    \/ Health

SpecDeps == InitDeps /\ [][NextDeps]_vars

\* ------------------------------------------------------------ AlertsHandler
\* df['day'].max() of a frame that has rows.
MaxDay(rows) ==
    CHOOSE d \in {rows[i].day : i \in 1..Len(rows)} : \A i \in 1..Len(rows) : rows[i].day <= d

\* df[df['day'] == day]
OnDay(rows, day) == SelectSeq(rows, LAMBDA r : r.day = day)

\* calc_metric of get_daily_summary
CalcMetric(day_data, metric) ==
    CASE metric = "tpv" -> Num(Sum(day_data, "amount_transacted"))
      [] metric = "average_ticket" ->
            LET total == Sum(day_data, "amount_transacted")
                count == Sum(day_data, "quantity_transactions")
            IN IF count > 0 THEN Frac(total, count) ELSE Num(0)
      [] metric = "transactions" -> Num(Sum(day_data, "quantity_transactions"))
      [] OTHER -> Num(0)

\* The variation of get_daily_summary with no test of the past value.
DayVariationUnguarded(value_current, value_past) ==
    IF value_past.n = 0 THEN (IF value_current.n = 0 THEN NaN ELSE Inf)
    ELSE FMul(FDiv(FSub(value_current, value_past), value_past), Num(100))

\* The variation of get_daily_summary against the value of a past day.
DayVariation(value_current, value_past) ==
    IF FLess(Num(0), value_past)
    THEN FMul(FDiv(FSub(value_current, value_past), value_past), Num(100))
    ELSE Num(0)

\* The label of a metric in the daily summary.
MetricLabel(metric) ==
    CASE metric = "tpv" -> "Total Payment Volume"
      [] metric = "average_ticket" -> "Average Ticket"
      [] metric = "transactions" -> "Total Transactions"
      [] OTHER -> "Unknown"

\* A DailySummary, or the exception raised instead of one.  The date is the
\* day number, the model's form of a calendar day.
DailySummary(date, metric, metric_label, value_current, var_d1, var_d7, var_d30) ==
    [exc |-> "none", arg |-> "", date |-> date, metric |-> metric,
     metric_label |-> metric_label, value_current |-> value_current,
     var_d1 |-> var_d1, var_d7 |-> var_d7, var_d30 |-> var_d30]

NoSummary(exc, arg) ==
    [exc |-> exc, arg |-> arg, date |-> 0, metric |-> "", metric_label |-> "",
     value_current |-> None, var_d1 |-> None, var_d7 |-> None, var_d30 |-> None]

\* AlertsHandler.get_daily_summary.  Over a frame of no row the maximum day
\* is NaT, every value is 0, and NaT.strftime raises ValueError.
GetDailySummary(df, metric) ==
    IF df = <<>> THEN NoSummary("ValueError", "strftime")
    ELSE
        LET last_day == MaxDay(df)
            value_current == CalcMetric(OnDay(df, last_day), metric)
            value_d1 == CalcMetric(OnDay(df, last_day - 1), metric)
            value_d7 == CalcMetric(OnDay(df, last_day - 7), metric)
            value_d30 == CalcMetric(OnDay(df, last_day - 30), metric)
        IN DailySummary(last_day, metric, MetricLabel(metric), value_current,
                        DayVariation(value_current, value_d1),
                        DayVariation(value_current, value_d7),
                        DayVariation(value_current, value_d30))

\* lookback_days of detect_anomalies
LookbackDays == 14

RECURSIVE Unique(_, _)
\* Series.unique(): the values of a column in order of first appearance.
Unique(rows, col) ==
    IF rows = <<>> THEN <<>>
    ELSE LET init == Unique(SubSeq(rows, 1, Len(rows) - 1), col)
             x == rows[Len(rows)][col]
         IN IF \E i \in 1..Len(init) : init[i] = x THEN init ELSE Append(init, x)

RECURSIVE FSum(_)
\* The sum of floats that are numbers.
FSum(values) == IF values = <<>> THEN Num(0) ELSE FAdd(values[1], FSum(Tail(values)))

\* Series.mean(): nan values are skipped, the mean of none is nan, and a
\* mean over inf is inf.
SeriesMean(values) ==
    LET present == SelectSeq(values, LAMBDA x : x.k # "nan")
    IN IF present = <<>> THEN NaN
       ELSE IF \E i \in 1..Len(present) : present[i].k = "inf" THEN Inf
       ELSE FDiv(FSum(present), Num(Len(present)))

\* The square of Series.std(), the sample variance: nan values are skipped,
\* it is nan for fewer than two values and over inf.
SeriesVar(values) ==
    LET present == SelectSeq(values, LAMBDA x : x.k # "nan")
        mean == SeriesMean(values)
        squares == [i \in 1..Len(present) |->
                        FMul(FSub(present[i], mean), FSub(present[i], mean))]
    IN IF Len(present) < 2 THEN NaN
       ELSE IF \E i \in 1..Len(present) : present[i].k = "inf" THEN NaN
       ELSE FDiv(FSum(squares), Num(Len(present) - 1))

\* The current value of a segment in _check_segment_anomalies.
SegmentCurrentValue(current_seg, metric) ==
    IF metric = "tpv" THEN Num(Sum(current_seg, "amount_transacted"))
    ELSE LET current_total == Sum(current_seg, "amount_transacted")
             current_count == Sum(current_seg, "quantity_transactions")
         IN IF current_count > 0 THEN Frac(current_total, current_count) ELSE Num(0)

\* The historical values of a segment, one for each of its days.
SegmentHistoricalValues(historical_seg, metric) ==
    LET hist_grouped ==
            GroupBySum(historical_seg, <<"day">>, {"amount_transacted", "quantity_transactions"})
    IN [n \in 1..Len(hist_grouped) |->
            IF metric = "tpv" THEN Num(hist_grouped[n]["amount_transacted"])
            ELSE SeriesDiv(hist_grouped[n]["amount_transacted"],
                           hist_grouped[n]["quantity_transactions"])]

\* The variation taken as the ratio of the current value to the mean.
SegmentVariationAsRatio(current_value, hist_mean) ==
    CASE hist_mean.k = "nan" -> Num(0)
      [] hist_mean.k = "inf" -> Num(0)
      [] OTHER -> IF FLess(Num(0), hist_mean)
                  THEN FMul(FDiv(current_value, hist_mean), Num(100))
                  ELSE Num(0)

\* variation of _check_segment_anomalies: nan > 0 is false, and
\* (current - inf) / inf is nan.
SegmentVariation(current_value, hist_mean) ==
    CASE hist_mean.k = "nan" -> Num(0)
      [] hist_mean.k = "inf" -> NaN
      [] OTHER -> IF FLess(Num(0), hist_mean)
                  THEN FMul(FDiv(FSub(current_value, hist_mean), hist_mean), Num(100))
                  ELSE Num(0)

\* The square of z_score, hist_std being the root of the sample variance:
\* 0 unless hist_std is a number greater than 0.
ZScoreSquared(current_value, hist_mean, hist_var) ==
    IF hist_var.k = "num" /\ hist_var.n > 0
    THEN FDiv(FMul(FSub(current_value, hist_mean), FSub(current_value, hist_mean)), hist_var)
    ELSE Num(0)

\* IsAnomaly with the percentage threshold 0, reached by every variation
\* that is a number.
IsAnomalyFromZero(variation, z_squared) ==
    \/ variation.k = "num"
    \/ FLess(Num(4), z_squared)

\* IsAnomaly asking for both thresholds.
IsAnomalyBoth(variation, z_squared) ==
    /\ variation.k = "num" /\ FLess(Num(15), FAbs(variation))
    /\ FLess(Num(4), z_squared)

\* is_anomaly: abs(variation) > 15 or abs(z_score) > 2, the latter as
\* z_score squared > 4; a comparison with nan is false.
IsAnomaly(variation, z_squared) ==
    \/ variation.k = "num" /\ FLess(Num(15), FAbs(variation))
    \/ FLess(Num(4), z_squared)

\* format(x, '.1f') of a float x >= 0, as its number of tenths: the nearest
\* tenth, and the even one of two that are equally near.
Tenths(x) ==
    LET q == (x.n * 10) \div x.d
        twice == 2 * ((x.n * 10) % x.d)
    IN IF twice > x.d \/ (twice = x.d /\ q % 2 = 1) THEN q + 1 ELSE q

\* The message of an alert: metric name, segment value, direction and
\* abs(variation) with one decimal.
AlertMessage(metric, seg_value, variation) ==
    [metric_name |-> IF metric = "tpv" THEN "TPV" ELSE "Average Ticket",
     seg_value |-> seg_value,
     direction |-> IF FLess(Num(0), variation) THEN "rose" ELSE "fell",
     tenths |-> Tenths(FAbs(variation))]

\* AlertOf with the types and the directions exchanged.
AlertOfSwapped(segment, seg_value, metric, variation) ==
    [type |-> IF FLess(variation, Num(0)) THEN "info" ELSE "warning",
     segment |-> segment, segment_value |-> seg_value, metric |-> metric,
     variation |-> variation,
     message |-> [AlertMessage(metric, seg_value, variation) EXCEPT
                    !.direction = IF @ = "rose" THEN "fell" ELSE "rose"]]

\* The Alert _check_segment_anomalies appends for an anomaly.
AlertOf(segment, seg_value, metric, variation) ==
    [type |-> IF FLess(variation, Num(0)) THEN "warning" ELSE "info",
     segment |-> segment, segment_value |-> seg_value, metric |-> metric,
     variation |-> variation, message |-> AlertMessage(metric, seg_value, variation)]

\* One pass of the loop of _check_segment_anomalies: the alerts, none or
\* one, of a segment value.
SegmentAlerts(current_data, historical_data, segment, metric, seg_value) ==
    LET current_seg == SelectSeq(current_data, LAMBDA r : r[segment] = seg_value)
        historical_seg == SelectSeq(historical_data, LAMBDA r : r[segment] = seg_value)
        current_value == SegmentCurrentValue(current_seg, metric)
        historical_values == SegmentHistoricalValues(historical_seg, metric)
        hist_mean == SeriesMean(historical_values)
        hist_var == SeriesVar(historical_values)
        variation == SegmentVariation(current_value, hist_mean)
        z_squared == ZScoreSquared(current_value, hist_mean, hist_var)
    IN IF historical_seg = <<>> THEN <<>>
       ELSE IF IsAnomaly(variation, z_squared)
       THEN <<AlertOf(segment, seg_value, metric, variation)>>
       ELSE <<>>

RECURSIVE SegmentLoop(_, _, _, _, _, _)
\* The loop of _check_segment_anomalies over segments, from position i on.
SegmentLoop(current_data, historical_data, segment, metric, segments, i) ==
    IF i > Len(segments) THEN <<>>
    ELSE SegmentAlerts(current_data, historical_data, segment, metric, segments[i])
         \o SegmentLoop(current_data, historical_data, segment, metric, segments, i + 1)

\* AlertsHandler._check_segment_anomalies
CheckSegmentAnomalies(current_data, historical_data, segment, metric) ==
    SegmentLoop(current_data, historical_data, segment, metric,
                Unique(current_data, segment), 1)

\* HistoricalData taking every row before the last day.
HistoricalDataAllBefore(df, last_day) ==
    SelectSeq(df, LAMBDA r : r.day < last_day)

\* The rows of the historical window of detect_anomalies.
HistoricalData(df, last_day) ==
    SelectSeq(df, LAMBDA r : r.day >= last_day - LookbackDays /\ r.day < last_day)

\* DetectAnomalies checking both metrics of product before those of entity.
DetectAnomaliesByDimension(df) ==
    IF df = <<>> THEN <<>>
    ELSE
        LET last_day == MaxDay(df)
            current_data == OnDay(df, last_day)
            historical_data == SelectSeq(df, LAMBDA r : r.day >= last_day - LookbackDays
                                                        /\ r.day < last_day)
        IN CheckSegmentAnomalies(current_data, historical_data, "product", "tpv")
           \o CheckSegmentAnomalies(current_data, historical_data, "product", "average_ticket")
           \o CheckSegmentAnomalies(current_data, historical_data, "entity", "tpv")
           \o CheckSegmentAnomalies(current_data, historical_data, "entity", "average_ticket")

\* AlertsHandler.detect_anomalies.  Over a frame of no row the maximum day
\* is NaT and both selections are empty.
DetectAnomalies(df) ==
    IF df = <<>> THEN <<>>
    ELSE
        LET last_day == MaxDay(df)
            current_data == OnDay(df, last_day)
            historical_data == HistoricalData(df, last_day)
        IN CheckSegmentAnomalies(current_data, historical_data, "product", "tpv")
           \o CheckSegmentAnomalies(current_data, historical_data, "entity", "tpv")
           \o CheckSegmentAnomalies(current_data, historical_data, "product", "average_ticket")
           \o CheckSegmentAnomalies(current_data, historical_data, "entity", "average_ticket")

\* Largest number of rows of a dataset given to the alerts handler.
MaxAlertRows == 3

\* The rows of those datasets: days 31, 30, 24 and 1 are a day and the days
\* 1, 7 and 30 before it, day 17 is the first day of the window of day 31
\* and day 16 the day before it; some rows have no transactions.
AlertCsvRows ==
    {CsvRow(31, PJ, pix, 102, 2, 1),
     CsvRow(31, PF, pos, 100, 0, 1),
     CsvRow(30, PJ, pix, 101, 1, 1),
     CsvRow(30, PF, pos, 0, 0, 0),
     CsvRow(29, PJ, pix, 100, 1, 1),
     CsvRow(24, PJ, pix, 103, 1, 1),
     CsvRow(18, PF, pos, 50, 1, 1),
     CsvRow(17, PJ, pos, 150, 0, 1),
     CsvRow(16, PF, pix, 300, 2, 2),
     CsvRow(1, PF, pix, 51, 1, 1)}

AlertCsvFiles == SeqsUpTo(AlertCsvRows, MaxAlertRows)

\* The metrics get_daily_summary is called with; merchants is none of its.
SummaryMetrics == {"tpv", "average_ticket", "transactions", "merchants"}

\* The service with a dataset for the alerts handler loaded.
InitAlerts ==
    /\ data \in {LoadData(csv) : csv \in AlertCsvFiles}
    /\ call = [op |-> "none"]
    /\ ret = Returned(<<>>)
    /\ env = [file_exists |-> TRUE, api_key |-> TRUE]
    /\ cache = [f \in Deps |-> 1]
    /\ made = [f \in Deps |-> 1]
    /\ failed = [f \in Deps |-> 0]
    /\ returned = [f \in Deps |-> {}]
    /\ ThreadsIdle

\* A call of AlertsHandler.get_daily_summary.
DailySummaryCall(metric) ==
    /\ call.op = "none"
    /\ call' = [op |-> "get_daily_summary", metric |-> metric]
    /\ ret' = GetDailySummary(data, metric)
    /\ UNCHANGED <<data, deps_vars>>

\* A call of AlertsHandler.detect_anomalies.
DetectAnomaliesCall ==
    /\ call.op = "none"
    /\ call' = [op |-> "detect_anomalies"]
    /\ ret' = [exc |-> "none", arg |-> "", alerts |-> DetectAnomalies(data)]
    /\ UNCHANGED <<data, deps_vars>>

NextAlerts ==
    \/ \E metric \in SummaryMetrics : DailySummaryCall(metric)
    \/ DetectAnomaliesCall
    \/ TakeResult

SpecAlerts == InitAlerts /\ [][NextAlerts]_vars

\* ------------------------------------------------------------ top insights
\* period_days.get(period, 7)
PeriodDays(period) ==
    CASE period = "d1" -> 1
      [] period = "d7" -> 7
      [] period = "d30" -> 30
      [] OTHER -> 7

\* An item of all_variations.
Variation(segment, label, tpv, variation) ==
    [segment |-> segment, label |-> label, tpv |-> tpv, variation |-> variation]

\* VariationItems without the test of the comparison TPV: the division by
\* a TPV of 0 gives inf or nan.
VariationItemsUnguarded(current_data, comparison_data, segment, seg_value) ==
    LET current_seg == SelectSeq(current_data, LAMBDA r : r[segment] = seg_value)
        comparison_seg == SelectSeq(comparison_data, LAMBDA r : r[segment] = seg_value)
        current_tpv == Sum(current_seg, "amount_transacted")
        comparison_tpv == Sum(comparison_seg, "amount_transacted")
    IN IF comparison_seg = <<>> THEN <<>>
       ELSE IF comparison_tpv > 0
       THEN <<Variation(segment, seg_value, current_tpv,
                        Ratio((current_tpv - comparison_tpv) * 100, comparison_tpv))>>
       ELSE <<Variation(segment, seg_value, current_tpv,
                        IF current_tpv > 0 THEN Inf ELSE NaN)>>

\* One pass of the inner loop of get_top_insights: the items, none or one,
\* a segment value adds to all_variations.
VariationItems(current_data, comparison_data, segment, seg_value) ==
    LET current_seg == SelectSeq(current_data, LAMBDA r : r[segment] = seg_value)
        comparison_seg == SelectSeq(comparison_data, LAMBDA r : r[segment] = seg_value)
        current_tpv == Sum(current_seg, "amount_transacted")
        comparison_tpv == Sum(comparison_seg, "amount_transacted")
    IN IF comparison_seg = <<>> THEN <<>>
       ELSE IF comparison_tpv > 0
       THEN <<Variation(segment, seg_value, current_tpv,
                        Ratio((current_tpv - comparison_tpv) * 100, comparison_tpv))>>
       ELSE <<>>

RECURSIVE VariationLoop(_, _, _, _, _)
\* The inner loop of get_top_insights over segments, from position i on.
VariationLoop(current_data, comparison_data, segment, segments, i) ==
    IF i > Len(segments) THEN <<>>
    ELSE VariationItems(current_data, comparison_data, segment, segments[i])
         \o VariationLoop(current_data, comparison_data, segment, segments, i + 1)

\* all_variations after the loops over product, entity and payment_method.
AllVariations(current_data, comparison_data) ==
    VariationLoop(current_data, comparison_data, "product",
                  Unique(current_data, "product"), 1)
    \o VariationLoop(current_data, comparison_data, "entity",
                     Unique(current_data, "entity"), 1)
    \o VariationLoop(current_data, comparison_data, "payment_method",
                     Unique(current_data, "payment_method"), 1)

RECURSIVE MinByVariation(_)
\* min(items, key=variation) of a list that is not empty: the first of the
\* items with the least variation.
MinByVariation(items) ==
    IF Len(items) = 1 THEN items[1]
    ELSE LET best == MinByVariation(SubSeq(items, 1, Len(items) - 1))
             x == items[Len(items)]
         IN IF FLess(x.variation, best.variation) THEN x ELSE best

RECURSIVE MaxByVariation(_)
\* max(items, key=variation): the first of the items with the greatest
\* variation.
MaxByVariation(items) ==
    IF Len(items) = 1 THEN items[1]
    ELSE LET best == MaxByVariation(SubSeq(items, 1, Len(items) - 1))
             x == items[Len(items)]
         IN IF FLess(best.variation, x.variation) THEN x ELSE best

RECURSIVE MaxByTpvLast(_)
\* MaxByTpv giving the last of the items with the greatest tpv.
MaxByTpvLast(items) ==
    IF Len(items) = 1 THEN items[1]
    ELSE LET best == MaxByTpvLast(SubSeq(items, 1, Len(items) - 1))
             x == items[Len(items)]
         IN IF x.tpv >= best.tpv THEN x ELSE best

RECURSIVE MaxByTpv(_)
\* max(items, key=tpv): the first of the items with the greatest tpv.
MaxByTpv(items) ==
    IF Len(items) = 1 THEN items[1]
    ELSE LET best == MaxByTpv(SubSeq(items, 1, Len(items) - 1))
             x == items[Len(items)]
         IN IF x.tpv > best.tpv THEN x ELSE best

\* TopInsight(type, label, segment_type, value, variation) of an item.
TopInsight(type, item) ==
    [type |-> type, label |-> item.label, segment_type |-> item.segment,
     value |-> Num(item.tpv), variation |-> item.variation]

\* GetTopInsights appending the three insights whatever their variation.
GetTopInsightsUnconditional(df, period) ==
    IF df = <<>> THEN <<>>
    ELSE
        LET last_day == MaxDay(df)
            comparison_day == last_day - PeriodDays(period)
            current_data == OnDay(df, last_day)
            comparison_data == OnDay(df, comparison_day)
            all_variations == AllVariations(current_data, comparison_data)
        IN IF comparison_data = <<>> THEN <<>>
           ELSE IF all_variations = <<>> THEN <<>>
           ELSE <<TopInsight("largest_drop", MinByVariation(all_variations)),
                  TopInsight("main_contributor", MaxByTpv(all_variations)),
                  TopInsight("highest_growth", MaxByVariation(all_variations))>>

\* AlertsHandler.get_top_insights.  Over a frame of no row the maximum day
\* is NaT and the comparison data is empty.
GetTopInsights(df, period) ==
    IF df = <<>> THEN <<>>
    ELSE
        LET last_day == MaxDay(df)
            comparison_day == last_day - PeriodDays(period)
            current_data == OnDay(df, last_day)
            comparison_data == OnDay(df, comparison_day)
            all_variations == AllVariations(current_data, comparison_data)
            largest_drop == MinByVariation(all_variations)
            main_contributor == MaxByTpv(all_variations)
            highest_growth == MaxByVariation(all_variations)
        IN IF comparison_data = <<>> THEN <<>>
           ELSE IF all_variations = <<>> THEN <<>>
           ELSE (IF FLess(largest_drop.variation, Num(0))
                 THEN <<TopInsight("largest_drop", largest_drop)>> ELSE <<>>)
                \o <<TopInsight("main_contributor", main_contributor)>>
                \o (IF FLess(Num(0), highest_growth.variation)
                    THEN <<TopInsight("highest_growth", highest_growth)>> ELSE <<>>)

\* Largest number of rows of a dataset the insights are taken from.
MaxInsightRows == 4

\* The rows of those datasets: two rows of day 31 that differ in every
\* dimension, rows of the days 1, 7 and 30 before it with a smaller, an
\* equal and a larger amount, and one with the amount 0.
InsightCsvRows ==
    {CsvRowPaid(31, PJ, pix, credit, 100, 1, 1),
     CsvRowPaid(31, PF, pos, debit, 100, 1, 1),
     CsvRowPaid(30, PJ, pix, credit, 50, 1, 1),
     CsvRowPaid(30, PF, pos, debit, 50, 1, 1),
     CsvRowPaid(30, PF, pix, debit, 200, 1, 1),
     CsvRowPaid(24, PJ, pos, credit, 100, 1, 1),
     CsvRowPaid(24, PF, pix, debit, 0, 0, 0),
     CsvRowPaid(1, PF, pos, uninformed, 400, 1, 1)}

InsightCsvFiles == SeqsUpTo(InsightCsvRows, MaxInsightRows)

\* The periods get_top_insights is called with; d14 is none of its.
Periods == {"d1", "d7", "d30", "d14"}

\* The service with a dataset for the insights loaded.
InitInsights ==
    /\ data \in {LoadData(csv) : csv \in InsightCsvFiles}
    /\ call = [op |-> "none"]
    /\ ret = Returned(<<>>)
    /\ env = [file_exists |-> TRUE, api_key |-> TRUE]
    /\ cache = [f \in Deps |-> 1]
    /\ made = [f \in Deps |-> 1]
    /\ failed = [f \in Deps |-> 0]
    /\ returned = [f \in Deps |-> {}]
    /\ ThreadsIdle

\* A call of AlertsHandler.get_top_insights.
TopInsightsCall(period) ==
    /\ call.op = "none"
    /\ call' = [op |-> "get_top_insights", period |-> period]
    /\ ret' = [exc |-> "none", arg |-> "", insights |-> GetTopInsights(data, period)]
    /\ UNCHANGED <<data, deps_vars>>

NextInsights ==
    \/ \E period \in Periods : TopInsightsCall(period)
    \/ TakeResult

SpecInsights == InitInsights /\ [][NextInsights]_vars

\* ------------------------------------------- the store under concurrent requests
\* DataHandler.get_data_summary
GetDataSummary(frame) ==
    [total_tpv |-> CalculateTpv(frame), average_ticket |-> CalculateAverageTicket(frame)]

\* data.groupby(col).agg({'amount_transacted': 'sum'}).reset_index(), the
\* sums being floats.
TpvBy(frame, col) ==
    LET grouped == GroupBySum(frame, <<col>>, {"amount_transacted"})
    IN [n \in 1..Len(grouped) |->
            [grouped[n] EXCEPT !["amount_transacted"] = Num(@)]]

\* The frame of col and average_ticket of get_dashboard_data: the sums of a
\* group divided without a test of the denominator.
AverageTicketBy(frame, col) ==
    LET grouped == GroupBySum(frame, <<col>>, {"amount_transacted", "quantity_transactions"})
    IN [n \in 1..Len(grouped) |->
            [c \in {col, "average_ticket"} |->
                IF c = col THEN grouped[n][col]
                ELSE SeriesDiv(grouped[n]["amount_transacted"],
                               grouped[n]["quantity_transactions"])]]

\* tpv_by_installments: the groups sorted by installments, ascending.
TpvByInstallments(frame) ==
    LET grouped == TpvBy(frame, "installments")
        keyed == [n \in 1..Len(grouped) |-> [grouped[n] EXCEPT !["installments"] = Num(@)]]
        sorted == SortValues(keyed, "installments", TRUE)
    IN [n \in 1..Len(sorted) |-> [sorted[n] EXCEPT !["installments"] = @.n]]

\* The charts of get_dashboard_data in the order it builds them.
DashboardCharts ==
    <<"tpv_by_product", "tpv_by_entity", "tpv_by_payment_method", "avg_ticket_by_entity",
      "avg_ticket_by_product", "avg_ticket_by_payment_method", "tpv_by_price_tier",
      "tpv_by_installments">>

\* The records of one chart of get_dashboard_data.
DashboardChart(frame, chart) ==
    CASE chart = "tpv_by_product" ->
            SortValues(TpvBy(frame, "product"), "amount_transacted", FALSE)
      [] chart = "tpv_by_entity" -> TpvBy(frame, "entity")
      [] chart = "tpv_by_payment_method" ->
            SortValues(TpvBy(frame, "payment_method"), "amount_transacted", FALSE)
      [] chart = "avg_ticket_by_entity" -> AverageTicketBy(frame, "entity")
      [] chart = "avg_ticket_by_product" ->
            SortValues(AverageTicketBy(frame, "product"), "average_ticket", FALSE)
      [] chart = "avg_ticket_by_payment_method" ->
            SortValues(AverageTicketBy(frame, "payment_method"), "average_ticket", FALSE)
      [] chart = "tpv_by_price_tier" ->
            SortValues(TpvBy(frame, "price_tier"), "amount_transacted", FALSE)
      [] OTHER -> TpvByInstallments(frame)

\* DataHandler.get_dashboard_data
GetDashboardData(frame) ==
    [n \in 1..Len(DashboardCharts) |-> DashboardChart(frame, DashboardCharts[n])]

\* How often an operation evaluates DataHandler.data: get_data_summary once
\* for each of its two values, get_dashboard_data once for each chart, and
\* the others once.
Reads(request) ==
    CASE request.op = "get_data_summary" -> 2
      [] request.op = "get_dashboard_data" -> Len(DashboardCharts)
      [] OTHER -> 1

\* What an operation computes from the frame it finds at its k-th
\* evaluation of DataHandler.data.
Part(request, k, frame) ==
    CASE request.op = "filter_data" -> FilterData(frame, request.filters)
      [] request.op = "execute" -> Execute(frame, request.intent)
      [] request.op = "get_daily_summary" -> GetDailySummary(frame, request.metric)
      [] request.op = "detect_anomalies" -> DetectAnomalies(frame)
      [] request.op = "get_top_insights" -> GetTopInsights(frame, request.period)
      [] request.op = "get_data_summary" ->
            IF k = 1 THEN GetDataSummary(frame).total_tpv
            ELSE GetDataSummary(frame).average_ticket
      [] OTHER -> GetDashboardData(frame)[k]

\* StoreAfter with filter_data selecting the rows in the frame of the store
\* itself instead of a copy.
StoreAfterFilterInPlace(request, frame) ==
    IF request.op = "filter_data" /\ FilterData(frame, request.filters).exc = "none"
    THEN FilterData(frame, request.filters).rows
    ELSE frame

\* DataHandler._data after a step of an operation: filter_data works on a
\* copy, every selection, groupby and sort returns a new frame, and the
\* columns that are assigned are columns of those new frames.
StoreAfter(request, frame) == frame

\* Largest number of rows of the dataset the concurrent requests share.
MaxStoreRows == 2

\* The rows of that dataset.
StoreCsvRows ==
    {CsvRowFull(31, PJ, pix, normal, credit, 1, 100, 2, 1),
     CsvRowFull(31, PF, pos, aggressive, debit, 2, 300, 0, 1),
     CsvRowFull(30, PJ, pos, aggressive, credit, 2, 50, 1, 1),
     CsvRowFull(24, PF, pix, normal, debit, 1, 0, 0, 0)}

StoreCsvFiles == SeqsUpTo(StoreCsvRows, MaxStoreRows)

\* The requests the threads serve.
StoreRequests ==
    {[op |-> "filter_data", filters |-> JDict(f)] :
        f \in {<<Item("entity", JInt(PJ))>>, <<Item("region", JInt(1))>>}}
    \cup {[op |-> "execute", intent |-> i] :
            i \in {Intent("tpv", "sum", <<"product">>, <<>>, "metric", "desc", JNull),
                   Intent("average_ticket", "sum", <<>>, <<Item("entity", JInt(PJ))>>,
                          "metric", "asc", JInt(1))}}
    \cup {[op |-> "get_daily_summary", metric |-> m] : m \in {"tpv", "average_ticket"}}
    \cup {[op |-> "detect_anomalies"]}
    \cup {[op |-> "get_top_insights", period |-> period] : period \in {"d1", "d7"}}
    \cup {[op |-> "get_data_summary"], [op |-> "get_dashboard_data"]}

\* A thread that serves no request.
Idle == [op |-> "none"]

\* The service with a dataset loaded and no request being served; call and
\* ret are here those of each thread.
InitStore ==
    /\ data \in {LoadData(csv) : csv \in StoreCsvFiles}
    /\ call = [t \in Threads |-> Idle]
    /\ ret = [t \in Threads |-> <<>>]
    /\ env = [file_exists |-> TRUE, api_key |-> TRUE]
    /\ cache = [f \in Deps |-> 1]
    /\ made = [f \in Deps |-> 1]
    /\ failed = [f \in Deps |-> 0]
    /\ returned = [f \in Deps |-> {}]
    /\ ThreadsIdle

\* Thread t starts to serve a request.
StartRequest(t, request) ==
    /\ call[t] = Idle
    /\ call' = [call EXCEPT ![t] = [op |-> "serving", request |-> request]]
    /\ ret' = [ret EXCEPT ![t] = <<>>]
    /\ UNCHANGED <<data, deps_vars>>

\* Thread t evaluates DataHandler.data once more and computes the part of
\* its result that is made from it.
ReadStore(t) ==
    /\ call[t].op = "serving"
    /\ Len(ret[t]) < Reads(call[t].request)
    /\ ret' = [ret EXCEPT ![t] = Append(@, Part(call[t].request, Len(@) + 1, data))]
    /\ data' = StoreAfter(call[t].request, data)
    /\ UNCHANGED <<call, deps_vars>>

\* Thread t returns the result of its request.
Respond(t) ==
    /\ call[t].op = "serving"
    /\ Len(ret[t]) = Reads(call[t].request)
    /\ call' = [call EXCEPT ![t] = Idle]
    /\ ret' = [ret EXCEPT ![t] = <<>>]
    /\ UNCHANGED <<data, deps_vars>>

NextStore ==
    \/ \E t \in Threads, request \in StoreRequests : StartRequest(t, request)
    \/ \E t \in Threads : ReadStore(t)
    \/ \E t \in Threads : Respond(t)

SpecStore == InitStore /\ [][NextStore]_vars

\* ------------------------------------------------------------------ properties
\* The rows of a frame that satisfy every predicate of a filters mapping.
Holds(r, item) ==
    IF item.v.t = "list"
    THEN \E j \in 1..Len(item.v.v) : item.v.v[j].v = r[item.k]
    ELSE item.v.v = r[item.k]

Kept(rows, items) == SelectSeq(rows, LAMBDA r : \A i \in 1..Len(items) : Holds(r, items[i]))

\* The keys of a filters mapping that are no column, by position.
UnknownKeys(items) == {i \in 1..Len(items) : items[i].k \notin Columns}

\* The intent of the last call of execute ran to a QueryResult.
Executed == call.op = "execute" /\ ret.exc = "none"

\* A JSON object that passes the structural validation of the intent.
IntentIsValid(intent) ==
    /\ \A i \in 1..Len(RequiredFields) : RequiredFields[i] \in DOMAIN intent
    /\ intent["metric"] \in Metrics
    /\ intent["aggregation"] \in ValidAggregations
    /\ intent["group_by"].t = "list"
    /\ intent["filters"].t = "dict"

\* C1: with a non-empty group_by and metric average_ticket, every result row
\* has metric_value = sum(amount_transacted) / sum(quantity_transactions) over
\* the rows of its group, and 0 when that sum of quantity_transactions is 0.
C1_GroupedAverageTicketGuarded ==
    (Executed /\ call.intent.metric = "average_ticket" /\ call.intent.group_by.v # <<>>) =>
        \A n \in 1..Len(ret.rows) :
            LET group_by == call.intent.group_by.v
                group == SelectSeq(Kept(data, call.intent.filters.v),
                            LAMBDA r : \A i \in 1..Len(group_by) :
                                            r[group_by[i]] = ret.rows[n][group_by[i]])
                amount == Sum(group, "amount_transacted")
                count == Sum(group, "quantity_transactions")
            IN ret.rows[n]["metric_value"] = IF count = 0 THEN Num(0) ELSE Frac(amount, count)

\* C2 as stated: with an empty group_by, execute returns one row with only
\* metric_value when the filtered set is non-empty and no row when it is empty.
C2_EmptyGroupByNoRowWhenEmpty ==
    (Executed /\ call.intent.group_by.v = <<>>) =>
        IF Kept(data, call.intent.filters.v) # <<>>
        THEN Len(ret.rows) = 1 /\ ret.columns = {"metric_value"}
        ELSE Len(ret.rows) = 0

\* A limit that head() does not take rows from the end with.
LimitNotNegative(intent) ==
    "limit" \in DOMAIN intent => (intent.limit.t = "int" => intent.limit.v >= 0)

\* C2 as amended: with an empty group_by and a limit that is not negative,
\* execute returns exactly one row with only metric_value, also when the
\* filtered set is empty, and then the metric_value of that row is 0.
C2_EmptyGroupByOneRow ==
    (Executed /\ call.intent.group_by.v = <<>> /\ LimitNotNegative(call.intent)) =>
        /\ Len(ret.rows) = 1
        /\ ret.columns = {"metric_value"}
        /\ DOMAIN ret.rows[1] = {"metric_value"}
        /\ Kept(data, call.intent.filters.v) = <<>> => ret.rows[1]["metric_value"] = Num(0)

\* C2's case: an empty group_by over a loaded frame of which no row passes
\* the filters.
C2_Witness ==
    /\ Executed
    /\ call.intent.group_by.v = <<>>
    /\ data # <<>>
    /\ call.intent.filters.v # <<>>
    /\ Kept(data, call.intent.filters.v) = <<>>
    /\ Len(ret.rows) = 1

\* C3: when sort_by names a column of the result, the rows are in the order
\* of that column, ascending or descending per sort_order, and the limit
\* keeps the rows that come first in that order.
C3_SortByColumn ==
    (/\ Executed
     /\ "sort_by" \in DOMAIN call.intent
     /\ call.intent.sort_by # "metric"
     /\ call.intent.sort_by \in ret.columns) =>
        LET by == call.intent.sort_by
            unlimited == Execute(data, [call.intent EXCEPT !["limit"] = JNull]).rows
            InOrder(a, b) == IF call.intent.sort_order = "asc" THEN a[by] <= b[by] ELSE a[by] >= b[by]
            kept == {ret.rows[i] : i \in 1..Len(ret.rows)}
        IN /\ \A i, j \in 1..Len(ret.rows) : i < j => InOrder(ret.rows[i], ret.rows[j])
           /\ \A i \in 1..Len(ret.rows), m \in 1..Len(unlimited) :
                 unlimited[m] \notin kept => InOrder(ret.rows[i], unlimited[m])

\* C4: a POST /query whose intent passes validation and groups by a column
\* that does not exist ends with HTTP 400.
C4_UnknownGroupByIsClientError ==
    (/\ call.op = "post_query"
     /\ call.response.kind = "json"
     /\ IntentIsValid(call.response.intent)
     /\ \E i \in 1..Len(call.response.intent.group_by.v) :
            call.response.intent.group_by.v[i] \notin Columns) =>
        ret.status = 400

\* C5: a POST /query whose intent fails the structural validation ends with
\* HTTP 400.
C5_InvalidIntentIsClientError ==
    (/\ call.op = "post_query"
     /\ call.response.kind = "json"
     /\ ~IntentIsValid(call.response.intent)) =>
        ret.status = 400

\* C6: each handler is constructed at most once, and every call of its
\* dependency returns the same instance.
C6_SingletonConstructedOnce ==
    \A f \in Deps : made[f] <= 1 /\ Cardinality(returned[f]) <= 1

\* C7: once the load of the dataset has failed, the service reports healthy
\* no more and attempts the load no more.
C7_LoadFailureIsFatal ==
    [][failed["data_handler"] > 0 =>
        /\ health_reports' = health_reports
        /\ failed'["data_handler"] = failed["data_handler"]]_vars

\* C8: filter_data, every key being a column, returns exactly the rows for
\* which every predicate holds, in their order in the frame, whatever the
\* order of the keys.
C8_FilterDataIsConjunction ==
    call.op = "filter_data" =>
        /\ UnknownKeys(call.filters.v) = {} => ret.exc = "none"
        /\ ret.exc = "none" =>
            /\ ret.rows = Kept(data, call.filters.v)
            /\ FilterData(data, JDict(Reverse(call.filters.v))).rows = ret.rows

\* C8's case: two predicates, one of them a list, that keep two different
\* rows of the frame and drop another.
C8_Witness ==
    /\ call.op = "filter_data"
    /\ ret.exc = "none"
    /\ Len(call.filters.v) = 2
    /\ \E i \in 1..2 : call.filters.v[i].v.t = "list"
    /\ Len(ret.rows) = 2
    /\ ret.rows[1] # ret.rows[2]
    /\ Len(data) = 3

\* The filters of a call of filter_data or execute.
FiltersOf(c) == IF c.op = "filter_data" THEN c.filters.v ELSE c.intent.filters.v

\* C9: a call of filter_data, or of execute with filters, one key of which is
\* no column raises a ValueError that names the first such key, returns no
\* rows and no metric_value, and leaves the loaded frame as it was.
C9_UnknownFilterColumnRaises ==
    [][(call'.op \in {"filter_data", "execute"} /\ UnknownKeys(FiltersOf(call')) # {}) =>
        LET items == FiltersOf(call')
            first == CHOOSE i \in UnknownKeys(items) : \A j \in UnknownKeys(items) : i <= j
        IN /\ ret'.exc = "ValueError"
           /\ ret'.arg = items[first].k
           /\ ret'.rows = <<>>
           /\ call'.op = "execute" => ret'.metric_value = None
           /\ data' = data]_vars

\* C9's case: execute with filters whose first predicate leaves no row of a
\* loaded frame and whose second key is no column.
C9_Witness ==
    /\ call.op = "execute"
    /\ data # <<>>
    /\ call.intent.filters.v = <<Item("day", JInt(9)), Item("region", JInt(1))>>
    /\ ret.exc = "ValueError"
    /\ ret.arg = "region"

\* C10: filter_data with the same filters over the frame filter_data
\* returned returns that frame, row for row.
C10_FilterIdempotent ==
    call.op = "filter_again" => ret.exc = "none" /\ ret.rows = call.first

\* C10's case: two predicates filtered a loaded frame down to fewer rows, and
\* the filter ran again over those.
C10_Witness ==
    /\ call.op = "filter_again"
    /\ Len(call.filters.v) = 2
    /\ call.first # <<>>
    /\ Len(call.first) < Len(data)
    /\ ret.rows = call.first

\* x <= y for floats: a comparison with nan is false.
FLeq(x, y) == x.k # "nan" /\ y.k # "nan" /\ ~FLess(y, x)

\* An intent with one field set.
With(intent, field, value) ==
    [f \in DOMAIN intent \cup {field} |-> IF f = field THEN value ELSE intent[f]]

\* The intent sorts by the metric, by name or by default.
SortsByMetric(intent) == Get(intent, "sort_by", "metric") = "metric"

\* The rows execute returns for the intent with this sort_order and no limit.
Unlimited(intent, sort_order) ==
    Execute(data, With(With(intent, "sort_order", sort_order), "limit", JNull)).rows

\* C11: when sort_by is metric or absent, the rows are in ascending order of
\* metric_value when sort_order is asc and in descending order otherwise, and
\* when no two rows have equal metric_value the descending order is the
\* reverse of the ascending order.
C11_SortByMetric ==
    (Executed /\ SortsByMetric(call.intent)) =>
        LET ascending == Get(call.intent, "sort_order", "desc") = "asc"
            value(i) == ret.rows[i]["metric_value"]
            asc == Unlimited(call.intent, "asc")
            desc == Unlimited(call.intent, "desc")
        IN /\ \A i, j \in 1..Len(ret.rows) :
                i < j => IF ascending THEN FLeq(value(i), value(j)) ELSE FLeq(value(j), value(i))
           /\ (\A i, j \in 1..Len(asc) : i # j => asc[i]["metric_value"] # asc[j]["metric_value"])
                => desc = Reverse(asc)

\* The rows execute returns for the intent with no limit.
PostSort(intent) == Execute(data, With(intent, "limit", JNull)).rows

\* C12: whatever the limit, the rows execute returns are a prefix of the
\* rows it returns without a limit; a positive integer n keeps the first
\* min(n, row count) rows, and a null or absent limit keeps every row.
C12_LimitIsPrefix ==
    Executed =>
        LET post == PostSort(call.intent)
            limit == Get(call.intent, "limit", JNull)
        IN /\ Len(ret.rows) <= Len(post)
           /\ ret.rows = SubSeq(post, 1, Len(ret.rows))
           /\ (limit.t = "int" /\ limit.v > 0) =>
                Len(ret.rows) = (IF limit.v < Len(post) THEN limit.v ELSE Len(post))
           /\ limit.t = "null" => ret.rows = post

\* C12's case: a limit of 1 cut a sorted result of three different rows.
C12_Witness ==
    /\ Executed
    /\ "limit" \in DOMAIN call.intent
    /\ call.intent.limit = JInt(1)
    /\ Len(PostSort(call.intent)) = 3
    /\ PostSort(call.intent)[1] # PostSort(call.intent)[3]
    /\ ret.rows = <<PostSort(call.intent)[1]>>

\* The metric_value of a QueryResult is that of its only row, or None.
ScalarMatches(result) ==
    /\ (result.metric_value # None) <=>
            (Len(result.rows) = 1 /\ "metric_value" \in result.columns)
    /\ (Len(result.rows) = 1 /\ "metric_value" \in result.columns) =>
            result.metric_value = result.rows[1]["metric_value"]
    /\ Len(result.rows) # 1 => (result.metric_value = None /\ result.metric_value # Num(0))

\* C13: the metric_value of every QueryResult is not None exactly when the
\* final result has one row with a metric_value column, and then it is that
\* row's metric_value; with no row or several rows it is None, never 0.
C13_ScalarOnlyForOneRow ==
    /\ Executed => ScalarMatches(ret)
    /\ (call.op = "post_query" /\ ret.status = 200) => ScalarMatches(ret.result)

\* C13's case: a limit left no row of an ungrouped result over loaded rows,
\* whose metric is not 0.
C13_Witness ==
    /\ Executed
    /\ call.intent.group_by.v = <<>>
    /\ ret.rows = <<>>
    /\ ret.metric_value = None
    /\ PostSort(call.intent)[1]["metric_value"] # Num(0)

\* The last call of execute raised and returned no QueryResult.
NoQueryResult == ret.exc # "none" /\ ret.rows = <<>> /\ ret.metric_value = None

\* C14 as stated: execute with a metric outside tpv, average_ticket,
\* transactions and merchants raises the unsupported-metric error, which
\* names the metric, and returns no QueryResult, whatever the group_by,
\* filters, sort and limit.
C14_UnsupportedMetricWhateverFilters ==
    (call.op = "execute" /\ call.intent.metric \notin Metrics) =>
        /\ NoQueryResult
        /\ ret.exc = "ValueError"
        /\ ret.arg = call.intent.metric

\* C14 as amended: execute with such a metric returns no QueryResult; the
\* error is the unsupported-metric error when every filter key is a column,
\* with and without group_by, and the error of the first filter key that is
\* no column otherwise, the filters being applied first.
C14_UnsupportedMetricAfterFilters ==
    (call.op = "execute" /\ call.intent.metric \notin Metrics) =>
        LET unknown == UnknownKeys(call.intent.filters.v)
        IN /\ NoQueryResult
           /\ ret.exc = "ValueError"
           /\ ret.arg = IF unknown = {} THEN call.intent.metric
                        ELSE call.intent.filters.v[CHOOSE i \in unknown : \A j \in unknown : i <= j].k

\* C14's case: an unsupported metric, no group_by, a filter that rows of the
\* loaded frame pass, and the error names the metric.
C14_Witness ==
    /\ call.op = "execute"
    /\ call.intent.metric = "revenue"
    /\ call.intent.group_by.v = <<>>
    /\ call.intent.filters.v # <<>>
    /\ ret.exc = "ValueError"
    /\ ret.arg = "revenue"
    /\ Kept(data, call.intent.filters.v) # <<>>

\* The column the metric sums.
SummedColumn(metric) ==
    CASE metric = "tpv" -> "amount_transacted"
      [] metric = "transactions" -> "quantity_transactions"
      [] OTHER -> "quantity_of_merchants"

\* A limit that is null, absent or a positive integer.
LimitInDomain(intent) ==
    LET limit == Get(intent, "limit", JNull)
    IN limit.t = "null" \/ (limit.t = "int" /\ limit.v > 0)

\* C15: for metrics tpv, transactions and merchants sorted by the metric,
\* the rows of the result are groups of the rows that pass the filters, each
\* with the sum of the metric's column over the passing rows of its group,
\* in the order of sort_order, cut to the limit, and no group that was cut
\* off sorts before a group that was kept.
C15_FilterAggregateSortLimit ==
    (/\ Executed
     /\ call.intent.metric \in {"tpv", "transactions", "merchants"}
     /\ SortsByMetric(call.intent)
     /\ LimitInDomain(call.intent)) =>
        LET kept == Kept(data, call.intent.filters.v)
            group_by == call.intent.group_by.v
            col == SummedColumn(call.intent.metric)
            limit == Get(call.intent, "limit", JNull)
            keys == IF group_by = <<>> THEN {<<>>}
                    ELSE {GroupKey(kept[i], group_by) : i \in 1..Len(kept)}
            total(key) == Sum(SelectSeq(kept, LAMBDA r : GroupKey(r, group_by) = key), col)
            keyOf(n) == GroupKey(ret.rows[n], group_by)
            Before(a, b) ==
                IF Get(call.intent, "sort_order", "desc") = "asc" THEN a < b ELSE a > b
            shown == {keyOf(n) : n \in 1..Len(ret.rows)}
        IN /\ Len(ret.rows) = IF limit.t = "int" /\ limit.v < Cardinality(keys)
                               THEN limit.v ELSE Cardinality(keys)
           /\ \A n \in 1..Len(ret.rows) :
                /\ keyOf(n) \in keys
                /\ ret.rows[n]["metric_value"] = Num(total(keyOf(n)))
           /\ \A m, n \in 1..Len(ret.rows) :
                m < n => (keyOf(m) # keyOf(n) /\ ~Before(total(keyOf(n)), total(keyOf(m))))
           /\ \A key \in keys \ shown, n \in 1..Len(ret.rows) :
                ~Before(total(key), total(keyOf(n)))

\* C15's case: tpv by product of the PJ rows, descending, limit 1, over a
\* frame whose PF row of pix outweighs every PJ row: the result is pos, 80.
C15_Witness ==
    /\ Executed
    /\ data = LoadData(<<CsvRow(1, PJ, pix, 50, 1, 1), CsvRow(1, PJ, pos, 80, 2, 1),
                         CsvRow(2, PF, pix, 300, 2, 2)>>)
    /\ call.intent = Intent("tpv", "sum", <<"product">>, <<Item("entity", JInt(PJ))>>,
                            "metric", "desc", JInt(1))
    /\ Len(ret.rows) = 1
    /\ ret.rows[1]["product"] = pos
    /\ ret.rows[1]["metric_value"] = Num(80)
    /\ ret.metric_value = Num(80)

\* C16: with an empty group_by and metric average_ticket, metric_value is
\* sum(amount_transacted) / sum(quantity_transactions) over the rows that
\* pass the filters, and 0 when that sum of quantity_transactions is 0, an
\* empty set of passing rows included.
C16_SimpleAverageTicketGuarded ==
    (/\ Executed
     /\ call.intent.metric = "average_ticket"
     /\ call.intent.group_by.v = <<>>
     /\ LimitNotNegative(call.intent)) =>
        LET kept == Kept(data, call.intent.filters.v)
            amount == Sum(kept, "amount_transacted")
            count == Sum(kept, "quantity_transactions")
            expected == IF count = 0 THEN Num(0) ELSE Frac(amount, count)
        IN /\ ret.metric_value = expected
           /\ ret.rows = <<[metric_value |-> expected]>>

\* C16's case: the rows that pass the filters have an amount and no
\* transactions, and the metric_value is 0.
C16_Witness ==
    /\ Executed
    /\ call.intent.metric = "average_ticket"
    /\ call.intent.group_by.v = <<>>
    /\ call.intent.filters.v # <<>>
    /\ Sum(Kept(data, call.intent.filters.v), "amount_transacted") > 0
    /\ Sum(Kept(data, call.intent.filters.v), "quantity_transactions") = 0
    /\ ret.metric_value = Num(0)

\* The metric of a daily summary over the rows of the dataset dated day.
MetricOnDay(metric, day) ==
    LET amount == Sum(SelectSeq(data, LAMBDA r : r.day = day), "amount_transacted")
        count == Sum(SelectSeq(data, LAMBDA r : r.day = day), "quantity_transactions")
    IN CASE metric = "tpv" -> Num(amount)
         [] metric = "transactions" -> Num(count)
         [] OTHER -> IF count = 0 THEN Num(0) ELSE Frac(amount, count)

\* (current - past) / past * 100 when past > 0, else 0.
PercentOver(current, past) ==
    IF past.n > 0
    THEN Ratio((current.n * past.d - past.n * current.d) * 100, current.d * past.n)
    ELSE Num(0)

\* C17: the daily summary of a metric is dated the maximum day of the
\* dataset, its value_current is the metric over the rows of that day, and
\* each of var_d1, var_d7, var_d30 is (current - past) / past * 100 for the
\* metric over the rows dated 1, 7, 30 days before, and 0 when that past
\* value is not greater than 0; no variation is infinite or undefined.
C17_DailySummaryVariations ==
    (/\ call.op = "get_daily_summary"
     /\ call.metric \in {"tpv", "average_ticket", "transactions"}
     /\ data # <<>>) =>
        LET current == MetricOnDay(call.metric, ret.date)
            Past(days) == MetricOnDay(call.metric, ret.date - days)
        IN /\ ret.exc = "none"
           /\ \E i \in 1..Len(data) : data[i].day = ret.date
           /\ \A i \in 1..Len(data) : data[i].day <= ret.date
           /\ ret.value_current = current
           /\ ret.var_d1 = PercentOver(current, Past(1))
           /\ ret.var_d7 = PercentOver(current, Past(7))
           /\ ret.var_d30 = PercentOver(current, Past(30))
           /\ \A v \in {ret.var_d1, ret.var_d7, ret.var_d30} : v.k = "num"

\* C17's case: the day before the maximum day has a row and the value 0, no
\* row is dated 7 days before, and the day 30 days before has a value.
C17_Witness ==
    /\ call.op = "get_daily_summary"
    /\ call.metric = "tpv"
    /\ data # <<>>
    /\ ret.exc = "none"
    /\ \E i \in 1..Len(data) : data[i].day = ret.date - 1
    /\ \A i \in 1..Len(data) : data[i].day # ret.date - 7
    /\ FLess(Num(0), ret.value_current)
    /\ ret.var_d1 = Num(0)
    /\ ret.var_d7 = Num(0)
    /\ FLess(Num(0), ret.var_d30)

\* The segment dimensions and metrics detect_anomalies evaluates.
SegmentDimensions == {"product", "entity"}
AnomalyMetrics == {"tpv", "average_ticket"}

\* The rows of the maximum day, and those of the 14 days before it.
CurrentRows == SelectSeq(data, LAMBDA r : r.day = MaxDay(data))
WindowRows ==
    SelectSeq(data, LAMBDA r : MaxDay(data) - 14 <= r.day /\ r.day < MaxDay(data))

\* The rows of a segment value among rows.
OfSegment(rows, segment, value) == SelectSeq(rows, LAMBDA r : r[segment] = value)

\* The current value, historical mean and historical variance of a segment
\* value for a metric.
CurrentOf(segment, value, metric) ==
    SegmentCurrentValue(OfSegment(CurrentRows, segment, value), metric)
HistMeanOf(segment, value, metric) ==
    SeriesMean(SegmentHistoricalValues(OfSegment(WindowRows, segment, value), metric))
HistVarOf(segment, value, metric) ==
    SeriesVar(SegmentHistoricalValues(OfSegment(WindowRows, segment, value), metric))

\* |(current - mean) / mean * 100| > 15, the percentage being 0 unless the
\* mean is a number greater than 0.
OverPercent(current, mean) ==
    /\ mean.k = "num"
    /\ mean.n > 0
    /\ Abs(current.n * mean.d - mean.n * current.d) * 100 > 15 * mean.n * current.d

\* |(current - mean) / std| > 2, z being 0 unless the standard deviation,
\* the root of variance, is a number greater than 0.
OverZ(current, mean, variance) ==
    /\ variance.k = "num"
    /\ variance.n > 0
    /\ LET diff == current.n * mean.d - mean.n * current.d
            scale == current.d * mean.d
       IN diff * diff * variance.d > 4 * variance.n * scale * scale

\* The alerts of the last call for a segment value and a metric.
AlertsFor(segment, value, metric) ==
    {a \in 1..Len(ret.alerts) :
        /\ ret.alerts[a].segment = segment
        /\ ret.alerts[a].segment_value = value
        /\ ret.alerts[a].metric = metric}

\* C18: for a segment value of the current day with rows in the window,
\* detect_anomalies emits an alert for a metric exactly when the variation
\* exceeds 15 percent or the z-score exceeds 2 in absolute value, either
\* alone; a segment value without rows in the window gets no alert.
C18_AlertIffEitherThreshold ==
    (call.op = "detect_anomalies" /\ data # <<>>) =>
        \A segment \in SegmentDimensions, metric \in AnomalyMetrics :
            \A i \in 1..Len(CurrentRows) :
                LET value == CurrentRows[i][segment]
                    current == CurrentOf(segment, value, metric)
                    mean == HistMeanOf(segment, value, metric)
                    variance == HistVarOf(segment, value, metric)
                IN IF OfSegment(WindowRows, segment, value) = <<>>
                   THEN AlertsFor(segment, value, metric) = {}
                   ELSE (AlertsFor(segment, value, metric) # {}) <=>
                            (OverPercent(current, mean) \/ OverZ(current, mean, variance))

\* C18's case: an alert for a variation within 15 percent, so for its
\* z-score alone, next to the alert of the other metric.
C18_Witness ==
    /\ call.op = "detect_anomalies"
    /\ \E a \in 1..Len(ret.alerts) :
            /\ ~FLess(Num(15), FAbs(ret.alerts[a].variation))
            /\ OverZ(CurrentOf("product", ret.alerts[a].segment_value, ret.alerts[a].metric),
                     HistMeanOf("product", ret.alerts[a].segment_value, ret.alerts[a].metric),
                     HistVarOf("product", ret.alerts[a].segment_value, ret.alerts[a].metric))

\* C19: a segment value whose current value equals its historical mean gets
\* no alert, for either metric and whatever the standard deviation is.
C19_CurrentEqualsMeanNoAlert ==
    (call.op = "detect_anomalies" /\ data # <<>>) =>
        \A segment \in SegmentDimensions, metric \in AnomalyMetrics :
            \A i \in 1..Len(CurrentRows) :
                LET value == CurrentRows[i][segment]
                IN (/\ OfSegment(WindowRows, segment, value) # <<>>
                    /\ CurrentOf(segment, value, metric) = HistMeanOf(segment, value, metric))
                    => AlertsFor(segment, value, metric) = {}

\* C19's case: the current value of a segment value is the mean of two
\* different historical values, and the call emitted nothing for it.
C19_Witness ==
    /\ call.op = "detect_anomalies"
    /\ data # <<>>
    /\ \E i \in 1..Len(CurrentRows) :
            /\ OfSegment(WindowRows, "product", CurrentRows[i]["product"]) # <<>>
            /\ CurrentOf("product", CurrentRows[i]["product"], "tpv")
                    = HistMeanOf("product", CurrentRows[i]["product"], "tpv")
            /\ HistVarOf("product", CurrentRows[i]["product"], "tpv").k = "num"
            /\ HistVarOf("product", CurrentRows[i]["product"], "tpv").n > 0
            /\ AlertsFor("product", CurrentRows[i]["product"], "tpv") = {}

\* C20: every alert has type warning when its variation is negative and
\* info otherwise, names a segment dimension, a segment value of the current
\* day and a metric, carries the variation of that segment value for that
\* metric, and its message names the metric and the segment value and says
\* rose for a positive and fell for a negative variation, followed by the
\* absolute variation to one decimal.
C20_AlertFields ==
    call.op = "detect_anomalies" =>
        \A a \in 1..Len(ret.alerts) :
            LET alert == ret.alerts[a]
                current == CurrentOf(alert.segment, alert.segment_value, alert.metric)
                mean == HistMeanOf(alert.segment, alert.segment_value, alert.metric)
            IN /\ alert.type = IF alert.variation.n < 0 THEN "warning" ELSE "info"
               /\ alert.segment \in SegmentDimensions
               /\ alert.metric \in AnomalyMetrics
               /\ \E i \in 1..Len(CurrentRows) :
                        CurrentRows[i][alert.segment] = alert.segment_value
               /\ alert.variation.k = "num"
               /\ alert.variation = PercentOver(current, mean)
               /\ alert.message.metric_name =
                        (IF alert.metric = "tpv" THEN "TPV" ELSE "Average Ticket")
               /\ alert.message.seg_value = alert.segment_value
               /\ alert.variation.n > 0 => alert.message.direction = "rose"
               /\ alert.variation.n < 0 => alert.message.direction = "fell"
               /\ Abs(20 * Abs(alert.variation.n) - 2 * alert.message.tenths * alert.variation.d)
                        <= alert.variation.d

\* C20's case: one call emitted an info alert that says rose and a warning
\* alert that says fell.
C20_Witness ==
    /\ call.op = "detect_anomalies"
    /\ \E a, b \in 1..Len(ret.alerts) :
            /\ ret.alerts[a].type = "info"
            /\ ret.alerts[a].message.direction = "rose"
            /\ ret.alerts[a].message.tenths > 0
            /\ ret.alerts[b].type = "warning"
            /\ ret.alerts[b].message.direction = "fell"
            /\ ret.alerts[b].message.tenths > 0

\* The translator's call failed, or its content is no JSON or no valid intent.
TranslatorFailed(response) ==
    response.kind # "json" \/ ~IntentIsValid(response.intent)

C24_AggregationIsAdvisory ==
    call.op = "execute" =>
        \A a \in ValidAggregations :
            LET other == Execute(data, With(call.intent, "aggregation", a))
            IN /\ other.exc = ret.exc
               /\ other.arg = ret.arg
               /\ other.rows = ret.rows
               /\ other.metric_value = ret.metric_value

\* C24's case: an intent with aggregation count was executed grouped, and a
\* group of two rows came back with the sum of its amounts.
C24_Witness ==
    /\ Executed
    /\ call.intent["aggregation"] = "count"
    /\ call.intent["metric"] = "tpv"
    /\ call.intent["group_by"].v = <<"product">>
    /\ Get(call.intent, "filters", JDict(<<>>)).v = <<>>
    /\ \E i, j \in 1..Len(data) : i # j /\ data[i]["product"] = data[j]["product"]
                                  /\ data[i]["amount_transacted"] > 0
    /\ \E n \in 1..Len(ret.rows) : FLess(Num(2), ret.rows[n]["metric_value"])

\* C25: parse_question returns an intent only when the intent has the five
\* required fields, a metric of the four, an aggregation of the three, a list
\* as group_by and a mapping as filters, and raises otherwise; so a POST
\* /query reaches execute only with a supported metric and never ends with
\* the executor's unsupported-metric error.
C25_OnlyValidIntentsReachExecute ==
    call.op = "post_query" =>
        LET parsed == ParseQuestion(call.response)
            valid == call.response.kind = "json" /\ IntentIsValid(call.response.intent)
        IN /\ parsed.exc = "none" <=> valid
           /\ valid => parsed.intent = call.response.intent
           /\ call.calls.executor = 1 <=> valid
           /\ call.calls.executor = 1 =>
                /\ call.response.intent["metric"] \in Metrics
                /\ ~(ret.result.exc = "ValueError"
                      /\ ret.result.arg = call.response.intent["metric"])
           /\ ret.status = 200 => valid

\* C25's case: the translator returned an object with every required field
\* and the metric revenue, and the request ended without calling execute.
C25_Witness ==
    /\ call.op = "post_query"
    /\ call.response.kind = "json"
    /\ RequiredFields[1] \in DOMAIN call.response.intent
    /\ call.response.intent["metric"] = "revenue"
    /\ call.calls.executor = 0
    /\ ret.result.exc = "Exception"

\* The value of a metric for a segment value on one day of the dataset.
DayValueOf(segment, value, metric, day) ==
    LET rows == SelectSeq(data, LAMBDA r : r.day = day /\ r[segment] = value)
    IN IF metric = "tpv" THEN Num(Sum(rows, "amount_transacted"))
       ELSE SeriesDiv(Sum(rows, "amount_transacted"), Sum(rows, "quantity_transactions"))

RECURSIVE DailyValuesFrom(_, _, _, _)
\* One value for each day from day up to the day before the maximum day on
\* which the segment value has a row.
DailyValuesFrom(day, segment, value, metric) ==
    IF day >= MaxDay(data) THEN <<>>
    ELSE (IF \E i \in 1..Len(data) : data[i].day = day /\ data[i][segment] = value
          THEN <<DayValueOf(segment, value, metric, day)>>
          ELSE <<>>)
         \o DailyValuesFrom(day + 1, segment, value, metric)

\* C26: the history of detect_anomalies is the rows dated from 14 days
\* before the maximum day up to the day before it: the mean and the
\* standard deviation a segment value is judged by are those of one value
\* for each of these days on which it has a row, rows of the maximum day and
\* rows more than 14 days old have no part in them, and a segment value
\* without a row in these days gets no alert for any metric.
C26_HistoryIsFourteenDayWindow ==
    (call.op = "detect_anomalies" /\ data # <<>>) =>
        \A segment \in SegmentDimensions, metric \in AnomalyMetrics :
            \A i \in 1..Len(CurrentRows) :
                LET value == CurrentRows[i][segment]
                    daily == DailyValuesFrom(MaxDay(data) - 14, segment, value, metric)
                    current == CurrentOf(segment, value, metric)
                    mean == SeriesMean(daily)
                    variance == SeriesVar(daily)
                IN /\ daily = <<>> => AlertsFor(segment, value, metric) = {}
                   /\ daily # <<>> =>
                        ((AlertsFor(segment, value, metric) # {}) <=>
                            (OverPercent(current, mean) \/ OverZ(current, mean, variance)))
                   /\ \A a \in AlertsFor(segment, value, metric) :
                        ret.alerts[a].variation = PercentOver(current, mean)

\* C26's case: a current row whose entity has a row exactly 14 days before
\* and an alert from it, and whose product has only a row older than that
\* and no alert.
C26_Witness ==
    /\ call.op = "detect_anomalies"
    /\ data # <<>>
    /\ \E i, j, k \in 1..Len(data) :
            /\ data[i].day = MaxDay(data)
            /\ data[j].day = MaxDay(data) - 14
            /\ data[j]["entity"] = data[i]["entity"]
            /\ data[k].day < MaxDay(data) - 14
            /\ data[k]["product"] = data[i]["product"]
            /\ data[j]["product"] # data[i]["product"]
            /\ AlertsFor("entity", data[i]["entity"], "tpv") # {}
            /\ AlertsFor("product", data[i]["product"], "tpv") = {}
            /\ AlertsFor("product", data[i]["product"], "average_ticket") = {}

\* The place of an alert's check among the four checks of detect_anomalies.
BlockOf(alert) ==
    CASE alert.segment = "product" /\ alert.metric = "tpv" -> 1
      [] alert.segment = "entity" /\ alert.metric = "tpv" -> 2
      [] alert.segment = "product" /\ alert.metric = "average_ticket" -> 3
      [] alert.segment = "entity" /\ alert.metric = "average_ticket" -> 4
      [] OTHER -> 0

\* C27: the alerts come in the order product-tpv, entity-tpv,
\* product-average_ticket, entity-average_ticket, and no two alerts share
\* their dimension, segment value and metric.
C27_AlertOrderAndUniqueness ==
    call.op = "detect_anomalies" =>
        /\ \A a \in 1..Len(ret.alerts) : BlockOf(ret.alerts[a]) \in 1..4
        /\ \A a, b \in 1..Len(ret.alerts) :
                a < b => BlockOf(ret.alerts[a]) <= BlockOf(ret.alerts[b])
        /\ \A a, b \in 1..Len(ret.alerts) :
                (/\ ret.alerts[a].segment = ret.alerts[b].segment
                 /\ ret.alerts[a].segment_value = ret.alerts[b].segment_value
                 /\ ret.alerts[a].metric = ret.alerts[b].metric) => a = b

\* C27's case: a call with an alert of each of the four checks, in their
\* order, one product and one entity having an alert under both metrics.
C27_Witness ==
    /\ call.op = "detect_anomalies"
    /\ Len(ret.alerts) >= 4
    /\ \E a, b, c, d \in 1..Len(ret.alerts) :
            /\ a < b /\ b < c /\ c < d
            /\ BlockOf(ret.alerts[a]) = 1 /\ BlockOf(ret.alerts[b]) = 2
            /\ BlockOf(ret.alerts[c]) = 3 /\ BlockOf(ret.alerts[d]) = 4
            /\ ret.alerts[a].segment_value = ret.alerts[c].segment_value
            /\ ret.alerts[b].segment_value = ret.alerts[d].segment_value

\* No row has a negative amount or a negative count.
NonNegativeData ==
    \A i \in 1..Len(data) :
        /\ data[i]["amount_transacted"] >= 0
        /\ data[i]["quantity_transactions"] >= 0

\* C30: over amounts and counts that are not negative no alert has the
\* variation 0, so an alert is a warning exactly when its message says fell
\* and an info exactly when it says rose.
C30_NoAlertWithZeroVariation ==
    (call.op = "detect_anomalies" /\ NonNegativeData) =>
        \A a \in 1..Len(ret.alerts) :
            /\ ret.alerts[a].variation.k = "num"
            /\ ret.alerts[a].variation.n # 0
            /\ ret.alerts[a].type = "warning" <=> ret.alerts[a].message.direction = "fell"
            /\ ret.alerts[a].type = "info" <=> ret.alerts[a].message.direction = "rose"

\* C30's case: a segment value with a current value above a historical mean
\* of 0, whose variation is therefore 0, got no alert in a call that
\* emitted an info alert saying rose for another segment value.
C30_Witness ==
    /\ call.op = "detect_anomalies"
    /\ data # <<>>
    /\ NonNegativeData
    /\ \E i \in 1..Len(CurrentRows) :
            /\ OfSegment(WindowRows, "entity", CurrentRows[i]["entity"]) # <<>>
            /\ HistMeanOf("entity", CurrentRows[i]["entity"], "tpv") = Num(0)
            /\ FLess(Num(0), CurrentOf("entity", CurrentRows[i]["entity"], "tpv"))
            /\ AlertsFor("entity", CurrentRows[i]["entity"], "tpv") = {}
    /\ \E a \in 1..Len(ret.alerts) :
            /\ ret.alerts[a].type = "info"
            /\ ret.alerts[a].message.direction = "rose"
            /\ ret.alerts[a].variation.n > 0

InsightDimensions == <<"product", "entity", "payment_method">>
InsightTypes == <<"largest_drop", "main_contributor", "highest_growth">>

\* The place of a value in a tuple without repetitions.
PlaceIn(tuple, x) == CHOOSE n \in 1..Len(tuple) : tuple[n] = x

\* The day a period compares the maximum day with; a period that is none
\* of d1, d7 and d30 counts as d7.
ComparisonDayOf(period) ==
    MaxDay(data) - (IF period = "d1" THEN 1 ELSE IF period = "d30" THEN 30 ELSE 7)

\* The TPV of a segment value on a day.
TpvOn(day, segment, value) ==
    Sum(SelectSeq(data, LAMBDA r : r.day = day /\ r[segment] = value), "amount_transacted")

\* The candidates of a period: the pairs of a dimension and a value that
\* has a row on the maximum day and a row on the comparison day, the TPV
\* of the comparison day being greater than 0.
Candidates(period) ==
    {pair \in {<<InsightDimensions[n], data[i][InsightDimensions[n]]>> :
                    n \in 1..3, i \in 1..Len(data)} :
        /\ \E i \in 1..Len(data) : data[i].day = MaxDay(data) /\ data[i][pair[1]] = pair[2]
        /\ \E i \in 1..Len(data) :
                data[i].day = ComparisonDayOf(period) /\ data[i][pair[1]] = pair[2]
        /\ TpvOn(ComparisonDayOf(period), pair[1], pair[2]) > 0}

\* Current TPV and variation of a candidate.
CandidateTpv(pair) == TpvOn(MaxDay(data), pair[1], pair[2])
CandidateVariation(pair, period) ==
    LET current == CandidateTpv(pair)
        comparison == TpvOn(ComparisonDayOf(period), pair[1], pair[2])
    IN Ratio((current - comparison) * 100, comparison)

\* The insights of the last call that have a type.
InsightsOfType(type) == {a \in 1..Len(ret.insights) : ret.insights[a].type = type}

\* The last call was get_top_insights over a dataset with rows.
TopInsightsReturned == call.op = "get_top_insights" /\ data # <<>>

\* C21: get_top_insights returns at most three insights, in the order
\* largest_drop, main_contributor, highest_growth and none of a type twice:
\* largest_drop exactly when some candidate's variation is negative, and it
\* carries the least variation; highest_growth exactly when some candidate's
\* variation is positive, and it carries the greatest; main_contributor
\* whenever there is a candidate, and it carries the greatest current TPV.
C21_InsightTypesAndOrder ==
    TopInsightsReturned =>
        LET pool == Candidates(call.period)
            Var(pair) == CandidateVariation(pair, call.period)
        IN /\ Len(ret.insights) \in 0..3
           /\ \A a \in 1..Len(ret.insights) :
                \E n \in 1..3 : ret.insights[a].type = InsightTypes[n]
           /\ \A a, b \in 1..Len(ret.insights) :
                a < b => PlaceIn(InsightTypes, ret.insights[a].type)
                            < PlaceIn(InsightTypes, ret.insights[b].type)
           /\ InsightsOfType("largest_drop") # {} <=> \E pair \in pool : Var(pair).n < 0
           /\ InsightsOfType("highest_growth") # {} <=> \E pair \in pool : Var(pair).n > 0
           /\ InsightsOfType("main_contributor") # {} <=> pool # {}
           /\ \A a \in InsightsOfType("largest_drop") :
                /\ ret.insights[a].variation.n < 0
                /\ \A pair \in pool : FLeq(ret.insights[a].variation, Var(pair))
           /\ \A a \in InsightsOfType("highest_growth") :
                /\ ret.insights[a].variation.n > 0
                /\ \A pair \in pool : FLeq(Var(pair), ret.insights[a].variation)
           /\ \A a \in InsightsOfType("main_contributor") :
                \A pair \in pool : FLeq(Num(CandidateTpv(pair)), ret.insights[a].value)

\* C21's case: one call returned the three insights in their order, the
\* drop and the growth being of different segment values.
C21_Witness ==
    /\ TopInsightsReturned
    /\ Len(ret.insights) = 3
    /\ ret.insights[1].type = "largest_drop"
    /\ ret.insights[2].type = "main_contributor"
    /\ ret.insights[3].type = "highest_growth"
    /\ ret.insights[1].variation.n < 0
    /\ ret.insights[3].variation.n > 0
    /\ ret.insights[1].label # ret.insights[3].label

\* C28: the candidates of get_top_insights are the pairs of a dimension of
\* product, entity and payment_method and a value that has rows on the
\* maximum day and on the day 1, 7 or 30 days before it (for d1, d7, d30)
\* with a comparison TPV greater than 0: every insight is such a pair with
\* its current TPV and the variation (current - comparison) / comparison *
\* 100, no such pair has a greater TPV than the main contributor, a lesser
\* variation than the largest drop or a greater one than the highest
\* growth, the list is empty exactly when there is no such pair, and so
\* when the comparison day has no row.
C28_CandidatePool ==
    (TopInsightsReturned /\ call.period \in {"d1", "d7", "d30"}) =>
        LET pool == Candidates(call.period)
            Of(a) == <<ret.insights[a].segment_type, ret.insights[a].label>>
        IN /\ ret.exc = "none"
           /\ ret.insights = <<>> <=> pool = {}
           /\ (\A i \in 1..Len(data) : data[i].day # ComparisonDayOf(call.period))
                => ret.insights = <<>>
           /\ \A a \in 1..Len(ret.insights) :
                /\ Of(a) \in pool
                /\ ret.insights[a].value = Num(CandidateTpv(Of(a)))
                /\ ret.insights[a].variation = CandidateVariation(Of(a), call.period)
                /\ \A pair \in pool :
                    CASE ret.insights[a].type = "main_contributor" ->
                            CandidateTpv(pair) <= CandidateTpv(Of(a))
                      [] ret.insights[a].type = "largest_drop" ->
                            FLeq(ret.insights[a].variation,
                                 CandidateVariation(pair, call.period))
                      [] OTHER ->
                            FLeq(CandidateVariation(pair, call.period),
                                 ret.insights[a].variation)

\* C28's case: a call for d7 over a dataset in which a value of the maximum
\* day has a row with the TPV 0 seven days before, another value has a row
\* with a TPV seven days before, and only the latter is in the insights.
C28_Witness ==
    /\ TopInsightsReturned
    /\ call.period = "d7"
    /\ ret.insights # <<>>
    /\ \E i, j \in 1..Len(data) :
            /\ data[i].day = MaxDay(data)
            /\ data[j].day = MaxDay(data) - 7
            /\ data[j]["product"] = data[i]["product"]
            /\ TpvOn(MaxDay(data) - 7, "product", data[i]["product"]) = 0
            /\ \A a \in 1..Len(ret.insights) :
                    ret.insights[a].segment_type = "product"
                        => ret.insights[a].label # data[i]["product"]

\* The first row of the maximum day that has the candidate's value.
FirstRowOf(pair) ==
    CHOOSE i \in 1..Len(data) :
        /\ data[i].day = MaxDay(data) /\ data[i][pair[1]] = pair[2]
        /\ \A j \in 1..(i - 1) : ~(data[j].day = MaxDay(data) /\ data[j][pair[1]] = pair[2])

\* Candidate p is met before candidate q: product before entity before
\* payment_method, and within a dimension by first appearance on the
\* maximum day.
MetBefore(p, q) ==
    \/ PlaceIn(InsightDimensions, p[1]) < PlaceIn(InsightDimensions, q[1])
    \/ p[1] = q[1] /\ FirstRowOf(p) < FirstRowOf(q)

\* C29: the selection is deterministic: of the candidates that tie for the
\* least variation, the greatest TPV or the greatest variation, the insight
\* is the one met first, and a second call returns the same list.
C29_FirstEncounteredOnTies ==
    TopInsightsReturned =>
        LET pool == Candidates(call.period)
            Of(a) == <<ret.insights[a].segment_type, ret.insights[a].label>>
            Ties(a, pair) ==
                IF ret.insights[a].type = "main_contributor"
                THEN CandidateTpv(pair) = CandidateTpv(Of(a))
                ELSE CandidateVariation(pair, call.period) = ret.insights[a].variation
        IN /\ GetTopInsights(data, call.period) = ret.insights
           /\ \A a \in 1..Len(ret.insights) :
                \A pair \in pool \ {Of(a)} : Ties(a, pair) => MetBefore(Of(a), pair)

\* C29's case: two products tie for the greatest TPV with the candidates
\* of the other dimensions, and the main contributor is the product that
\* comes first on the maximum day though it is the last in alphabetical
\* order.
C29_Witness ==
    /\ TopInsightsReturned
    /\ \E a \in 1..Len(ret.insights) :
            /\ ret.insights[a].type = "main_contributor"
            /\ ret.insights[a].segment_type = "product"
            /\ ret.insights[a].label = pos
            /\ <<"product", pix>> \in Candidates(call.period)
            /\ CandidateTpv(<<"product", pix>>) = CandidateTpv(<<"product", pos>>)
            /\ \E pair \in Candidates(call.period) :
                    pair[1] = "entity" /\ CandidateTpv(pair) = CandidateTpv(<<"product", pos>>)

\* The result of a request served alone over a frame.
ServedAlone(request, frame) == [k \in 1..Reads(request) |-> Part(request, k, frame)]

====
